---- MODULE Spec2Model ----
(***************************************************************************)
(* A model of the Dumplings agent layer: the tool registry                 *)
(* (Dumplings/agent_tool.py), the dual-key agent directory                 *)
(* (Dumplings/Agent_list.py) and the conversation loop with its two        *)
(* calling conventions (Dumplings/Agent_Base_.py), and the session         *)
(* handling of the MCP bridge (Dumplings/mcp_bridge.py).                   *)
(*                                                                         *)
(* The specifications share the variables:                                 *)
(*   SpecReg  the tool registry: registrations and permission queries;     *)
(*   SpecDir  the agent directory: register_agent with construction;       *)
(*   Spec     the conversation loop of two constructed agents over the     *)
(*            registry that main.py and an MCP provider set up;            *)
(*   SpecAcc  the accumulator of streamed tool-call fragments;             *)
(*   SpecExt  the extraction of XML blocks from a response text;           *)
(*   SpecXml  the XML calling convention over host-registered functions;   *)
(*   SpecDel  delegation between the two agents of main.py;                *)
(*   SpecLife construction with its probe, later probes and the loop;      *)
(*   SpecList registrations and the listing of an agent's tools;           *)
(*   SpecConc a listing in one thread while another registers tools;       *)
(*   SpecPay  the tool list of each request while the registry grows;      *)
(*   SpecCycFair agents that delegate to each other, also in a cycle, the  *)
(*            loop's own steps being always taken;                         *)
(*   SpecMcp  the MCP bridge: registration of a server's tools, the        *)
(*            session pool with its health check, and calls of the tools.  *)
(***************************************************************************)
EXTENDS Integers, Sequences, FiniteSets, TLC

(* ------------------------------ bounds --------------------------------- *)
\* register_agent calls that construct an instance, in SpecDir
MaxAgents == 3
\* model requests in one run of Spec
MaxReq == 2
\* native calls or XML blocks in one model response
MaxCalls == 2
\* nested conversation loops (delegation depth)
MaxDepth == 3
\* streamed tool-call fragments in one response, in SpecAcc
MaxFrags == 3
\* the largest index a fragment carries, in SpecAcc
MaxIndex == 2
\* tokens (tags and characters) of a response text, in SpecExt
MaxTokens == 6
\* model requests in one run of SpecDel
MaxDelReq == 3
\* agents constructed in one run of SpecLife
MaxLifeAgents == 2
\* connectivity probes sent in one run of SpecLife
MaxProbes == 3
\* register_tool calls in one run of SpecList and of SpecConc
MaxRegs == 3
\* register_tool calls in one run of SpecPay
MaxPayRegs == 2
\* model requests in one run of SpecCycFair
MaxCycReq == 3
\* operations of the MCP bridge (clock ticks included) in one run of SpecMcp
MaxMcpOps == 5
\* MCP sessions opened in one run of SpecMcp
MaxSessions == 3

VARIABLES
    tools,          \* tool_registry._tools: an insertion-ordered dict, as a sequence of infos
    uuid_to_name,   \* tool_registry._uuid_to_name
    agent_list,     \* Agent_list.agent_list: key -> instance
    inst,           \* the constructed Agent instances: <<[uuid, name, fc]>>, an instance is its index
    history,        \* history[i]: self.history of instance i
    stack,          \* the active conversation_with_tool invocations, innermost last
    proc,           \* "up", "exit" (sys.exit) or the name of the exception that reached the host
    reqs,           \* model requests sent so far
    reqlog,         \* per request: the agent, the length of the message list sent, the tools sent
    ret,            \* what the last top-level conversation_with_tool returned
    raised,         \* the last exception that left a conversation_with_tool invocation
    lastDispatch,   \* the last call the dispatcher resolved
    markerSeen,     \* a response whose raw text holds <attempt_completion> was received
    lastCheck,      \* the last check_permission query and its answer
    entered,        \* the call expressions evaluated for the call last dispatched
    deltas,         \* the streamed tool-call fragments read so far
    tool_calls_list,\* the accumulator the fragments are folded into
    full_content,   \* a response text handed to the XML extractor, as tokens
    xml_calls,      \* what the extractor made of it
    extracted,      \* whether the extractor has run on full_content
    probes,         \* the connectivity probe requests sent so far, with their outcome
    reglog,         \* the tool names registered so far, one per register_tool call
    lister,         \* a permitted-tools listing in progress in another thread
    MCP_SESSION_POOL, \* mcp_bridge.MCP_SESSION_POOL: server path -> session info
    _pool,          \* mcp_bridge._global_session_pool._pool: server path -> session info
    sessions,       \* the MCP sessions opened so far: <<[path, open]>>, a session is its index
    now,            \* time.time(), in seconds
    mcpcall         \* the last operation of the MCP bridge and what it answered

regVars == <<tools, uuid_to_name, agent_list, inst, history, lastCheck>>
loopVars == <<stack, proc, reqs, reqlog, ret, raised, lastDispatch, markerSeen, entered>>
parseVars == <<deltas, tool_calls_list, full_content, xml_calls, extracted>>
mcpVars == <<MCP_SESSION_POOL, _pool, sessions, now, mcpcall>>
auxVars == <<probes, reglog, lister, mcpVars>>
vars == <<tools, uuid_to_name, agent_list, inst, history, stack, proc, reqs, reqlog,
          ret, raised, lastDispatch, markerSeen, lastCheck, entered, deltas,
          tool_calls_list, full_content, xml_calls, extracted, probes, reglog, lister,
          MCP_SESSION_POOL, _pool, sessions, now, mcpcall>>

(* ------------------------------ values --------------------------------- *)
\* A Python value as the model keeps it: a type tag and its text.
Val(t, s) == [t |-> t, s |-> s]
PyNone == Val("none", "")

\* One message of a history.  `name` is the tool name of a tool-role message
\* and the label that prefixes an XML result ("<name> results: ...").
Msg(role, name, id, content, calls) ==
    [role |-> role, name |-> name, id |-> id, content |-> content, calls |-> calls]

\* allowed_agents as stored: None, or a list of names
NoList == [none |-> TRUE, list |-> <<>>]
AllowList(l) == [none |-> FALSE, list |-> l]

\* Python's `x in list`
InList(x, l) == \E i \in DOMAIN l : l[i] = x

\* dict[k] = v on a function with a finite domain
DictSet(d, k, v) == (k :> v) @@ d

(* ------------------------- agent_tool.py: tool ------------------------- *)
ToolNames == {tools[i].name : i \in DOMAIN tools}
ToolIndex(tool_name) == CHOOSE i \in DOMAIN tools : tools[i].name = tool_name

\* A parameter schema is kept as its text; None and the empty dict are falsy.
\* EmptyObject is the schema of a function that takes no parameter.
EmptyObject == "{type: object, properties: {}, required: []}"
Falsy(parameters) == parameters \in {"None", "{}"}

\* The OpenAI tool schema register_tool's decorator builds
tool_schema(tool_name, description, parameters) ==
    [name |-> tool_name, description |-> description,
     parameters |-> IF Falsy(parameters) THEN EmptyObject ELSE parameters]

\* One value of tool_registry._tools
ToolInfo(name, func, permitted, description, parameters) ==
    [name |-> name, function |-> func, allowed_agents |-> permitted,
     description |-> description, parameters |-> parameters,
     schema |-> tool_schema(name, description, parameters)]

NoInfo == ToolInfo("", "", NoList, "", "None")

\* tool.register_agent_uuid
register_agent_uuid(u2n, uuid, name) == DictSet(u2n, uuid, name)

\* The `permitted` value register_tool's decorator derives from allowed_agents:
\* None stays None, one str becomes a one-element list, a list is copied.
Permitted(allowed_agents) ==
    IF allowed_agents.kind = "none" THEN NoList
    ELSE IF allowed_agents.kind = "str" THEN AllowList(<<allowed_agents.s>>)
    ELSE AllowList(allowed_agents.l)

\* A plausible slip: the registry is rebuilt around the new entry.
register_tool_Clobber(ts, allowed_agents, description, name, parameters, func) ==
    <<ToolInfo(name, func, Permitted(allowed_agents), description, parameters)>>

\* tool.register_tool(...)(func): self._tools[tool_name] = {...}; an existing
\* name is overwritten in place, a new one goes to the end of the dict.
register_tool(ts, allowed_agents, description, name, parameters, func) ==
    LET info == ToolInfo(name, func, Permitted(allowed_agents), description, parameters)
    IN  IF \E i \in DOMAIN ts : ts[i].name = name
        THEN [i \in DOMAIN ts |-> IF ts[i].name = name THEN info ELSE ts[i]]
        ELSE Append(ts, info)

\* A plausible slip: the uuid -> name resolution is skipped.
check_permission_NoUuid(agent_name, tool_name) ==
    IF tool_name \notin ToolNames THEN FALSE
    ELSE LET allowed == tools[ToolIndex(tool_name)].allowed_agents
         IN  IF allowed.none THEN TRUE ELSE InList(agent_name, allowed.list)

\* tool.check_permission
check_permission(agent_name, tool_name) ==
    IF tool_name \notin ToolNames THEN FALSE
    ELSE LET resolved == IF agent_name \in DOMAIN uuid_to_name
                         THEN uuid_to_name[agent_name] ELSE agent_name
             allowed == tools[ToolIndex(tool_name)].allowed_agents
         IN  IF allowed.none THEN TRUE ELSE InList(resolved, allowed.list)

\* tool.get_tool_info: self._tools.get(tool_name)
get_tool_info(tool_name) ==
    IF tool_name \in ToolNames
    THEN [found |-> TRUE, info |-> tools[ToolIndex(tool_name)]]
    ELSE [found |-> FALSE, info |-> NoInfo]

\* The tools an agent key may use, in the order of self._tools.items(): the
\* loop of get_all_tools_schema and get_all_tools_info over the first n items.
RECURSIVE PermittedItems(_, _)
PermittedItems(agent_uuid, n) ==
    IF n = 0 THEN <<>>
    ELSE LET before == PermittedItems(agent_uuid, n - 1)
         IN  IF check_permission(agent_uuid, tools[n].name)
             THEN Append(before, tools[n]) ELSE before

\* A plausible slip: the listing is not filtered by permission.
get_all_tools_schema_All(agent_uuid) == [j \in DOMAIN tools |-> tools[j].schema]

\* tool.get_all_tools_schema
get_all_tools_schema(agent_uuid) ==
    LET items == PermittedItems(agent_uuid, Len(tools))
    IN  [j \in DOMAIN items |-> items[j].schema]

\* tool.get_all_tools_info: a dict, kept as its items in insertion order
get_all_tools_info(agent_uuid) ==
    LET items == PermittedItems(agent_uuid, Len(tools))
    IN  [j \in DOMAIN items |->
            [name |-> items[j].name, description |-> items[j].description,
             parameters |-> items[j].parameters]]

(* ----------------------- Agent construction ---------------------------- *)
BasePrompt == Val("prompt", "base")
SystemMsg == Msg("system", "", "", BasePrompt, <<>>)
ProbeMsg == Msg("user", "", "", Val("str", "hello"), <<>>)
\* The first history of __init__: the prompt with the tool list and the uuid
ComposedMsg == Msg("system", "", "", Val("prompt", "base+tools+uuid"), <<>>)

\* A plausible slip: the reset after the probe leaves the history empty.
Connectivity_Clears(h, status_ok) == [history |-> <<>>, ok |-> status_ok, posts |-> 1]

\* Agent.Connectivity: the probe message is appended, one request is sent, and
\* the history is reset to the system prompt; the answer is status == 200.
Connectivity(h, status_ok) == [history |-> <<SystemMsg>>, ok |-> status_ok, posts |-> 1]

(* ------------------------ Agent_list.py -------------------------------- *)
\* A plausible slip: the instance is stored whether or not its construction
\* succeeded.
register_agent_StoreAnyway(uuid, name, fc, status_ok) ==
    LET probe == Connectivity(<<ComposedMsg, ProbeMsg>>, status_ok)
        new == Len(inst) + 1
    IN  /\ uuid_to_name' = IF name # "" /\ uuid # ""
                           THEN register_agent_uuid(uuid_to_name, uuid, name)
                           ELSE uuid_to_name
        /\ inst' = Append(inst, [uuid |-> uuid, name |-> name, fc |-> fc])
        /\ history' = Append(history, probe.history)
        /\ agent_list' = DictSet(DictSet(agent_list, uuid, new), name, new)

\* register_agent(uuid, name)(cls): the instance is constructed (Agent.__init__
\* maps uuid -> name in the registry, then probes the endpoint and raises
\* ConnectionError when the probe fails) and is then stored under both keys.
register_agent(uuid, name, fc, status_ok) ==
    LET probe == Connectivity(<<ComposedMsg, ProbeMsg>>, status_ok)
        new == Len(inst) + 1
    IN  /\ uuid_to_name' = IF name # "" /\ uuid # ""
                           THEN register_agent_uuid(uuid_to_name, uuid, name)
                           ELSE uuid_to_name
        /\ IF probe.ok
           THEN /\ inst' = Append(inst, [uuid |-> uuid, name |-> name, fc |-> fc])
                /\ history' = Append(history, probe.history)
                /\ agent_list' = DictSet(DictSet(agent_list, uuid, new), name, new)
           ELSE UNCHANGED <<inst, history, agent_list>>

(* ------------------ SpecReg: registrations and queries ----------------- *)
Keys == {"k1", "k2", "k3"}
RegToolNames == {"t1", "t2"}
AllowedInputs ==
    {[kind |-> "none", s |-> "", l |-> <<>>]}
    \cup {[kind |-> "str", s |-> k, l |-> <<>>] : k \in {"k1", "k2"}}
    \cup {[kind |-> "list", s |-> "", l |-> l] : l \in {<<>>, <<"k2", "k3">>}}

NoCheck == [key |-> "", tool |-> "", result |-> FALSE, asked |-> FALSE]
NoRet == [done |-> FALSE, val |-> PyNone, text |-> "", tool |-> FALSE]
NoRaise == [exc |-> "", site |-> "", agent |-> 0]
NoDispatch ==
    [agent |-> 0, name |-> "", src |-> "", func |-> "", invoked |-> FALSE, fc |-> FALSE,
     ok |-> FALSE, params |-> <<>>]

LoopIdle ==
    /\ stack = <<>>
    /\ proc = "up"
    /\ reqs = 0
    /\ reqlog = <<>>
    /\ ret = NoRet
    /\ raised = NoRaise
    /\ lastDispatch = NoDispatch
    /\ markerSeen = FALSE
    /\ entered = <<>>

\* Nothing streamed and nothing extracted yet
ParseIdle ==
    /\ deltas = <<>>
    /\ tool_calls_list = <<>>
    /\ full_content = <<>>
    /\ xml_calls = <<>>
    /\ extracted = FALSE

\* No probe sent, no registration logged and no listing under way
NoLister ==
    [status |-> "idle", key |-> "", used |-> 0, pos |-> 0, out |-> <<>>, info |-> <<>>]
\* and no session opened and no operation of the MCP bridge yet
AuxIdle ==
    /\ probes = <<>>
    /\ reglog = <<>>
    /\ lister = NoLister
    /\ MCP_SESSION_POOL = <<>>
    /\ _pool = <<>>
    /\ sessions = <<>>
    /\ now = 0
    /\ mcpcall = [n |-> 0, op |-> "", path |-> "", ok |-> FALSE, count |-> 0,
                  used |-> 0, error |-> ""]

RegInit ==
    /\ tools = <<>>
    /\ uuid_to_name = <<>>
    /\ agent_list = <<>>
    /\ inst = <<>>
    /\ history = <<>>
    /\ lastCheck = NoCheck
    /\ LoopIdle
    /\ ParseIdle
    /\ AuxIdle

RegRegisterTool ==
    \E name \in RegToolNames, al \in AllowedInputs :
        /\ tools' = register_tool(tools, al, "d", name, "None", "f")
        /\ lastCheck' = NoCheck
        /\ UNCHANGED <<uuid_to_name, agent_list, inst, history>>
        /\ UNCHANGED <<loopVars, parseVars, auxVars>>

RegRegisterAgentUuid ==
    \E uuid \in Keys, name \in Keys :
        /\ uuid_to_name' = register_agent_uuid(uuid_to_name, uuid, name)
        /\ lastCheck' = NoCheck
        /\ UNCHANGED <<tools, agent_list, inst, history>>
        /\ UNCHANGED <<loopVars, parseVars, auxVars>>

RegCheckPermission ==
    \E key \in Keys, tool_name \in RegToolNames \cup {"t3"} :
        /\ lastCheck' = [key |-> key, tool |-> tool_name,
                         result |-> check_permission(key, tool_name), asked |-> TRUE]
        /\ UNCHANGED <<tools, uuid_to_name, agent_list, inst, history>>
        /\ UNCHANGED <<loopVars, parseVars, auxVars>>

RegNext == RegRegisterTool \/ RegRegisterAgentUuid \/ RegCheckPermission

SpecReg == RegInit /\ [][RegNext]_vars

(* ------------------ SpecDir: the agent directory ----------------------- *)
DirRegisterAgent ==
    \E uuid \in Keys, name \in Keys, status_ok \in BOOLEAN :
        /\ Len(inst) < MaxAgents
        /\ register_agent(uuid, name, FALSE, status_ok)
        /\ UNCHANGED <<tools, lastCheck>>
        /\ UNCHANGED <<loopVars, parseVars, auxVars>>

DirNext == DirRegisterAgent

SpecDir == RegInit /\ [][DirNext]_vars

(* =================== Agent_Base_.py: the conversation loop ============= *)
KV(k, v) == [k |-> k, v |-> v]

\* A parsed call of either convention: a native tool call (id, name, argument
\* string: `ok` says whether json.loads accepts it and `params` is the object
\* it yields) or an extracted XML block (tag name, child tags in text order;
\* `ok` says whether BeautifulSoup finds a root element).
Call(id, name, params, ok) == [id |-> id, name |-> name, params |-> params, ok |-> ok]

\* One entry of tool_results.  err_only is the {"error": ...} dict, which has
\* no tool_call_id, name or content key.
Result(err_only, id, name, content) ==
    [err_only |-> err_only, id |-> id, name |-> name, content |-> content]

\* The attributes an Agent instance exposes to hasattr/getattr, with whether
\* getattr yields a callable: the three built-ins, the helper pack, and the
\* data attribute history.
AttrCallable ==
    [ask_for_help |-> TRUE, list_agents |-> TRUE, attempt_completion |-> TRUE,
     pack |-> TRUE, history |-> FALSE]
hasattr(tool_name) == tool_name \in DOMAIN AttrCallable
MethodOf(tool_name) == "Agent." \o tool_name

\* A plausible slip: the registry is consulted without the permission check.
Resolve_NoPermission(a, tool_name) ==
    IF get_tool_info(tool_name).found
    THEN [src |-> "registry", func |-> get_tool_info(tool_name).info.function]
    ELSE IF hasattr(tool_name) /\ AttrCallable[tool_name]
    THEN [src |-> "method", func |-> MethodOf(tool_name)]
    ELSE [src |-> "none", func |-> ""]

\* The lookup both conventions perform: the permitted registry tool first,
\* then a callable attribute of the agent, else nothing.
Resolve(a, tool_name) ==
    IF check_permission(inst[a].uuid, tool_name) /\ get_tool_info(tool_name).found
    THEN [src |-> "registry", func |-> get_tool_info(tool_name).info.function]
    ELSE IF hasattr(tool_name) /\ AttrCallable[tool_name]
    THEN [src |-> "method", func |-> MethodOf(tool_name)]
    ELSE [src |-> "none", func |-> ""]

\* inspect.signature of each callable: its positional-or-keyword parameters in
\* order (self excluded), how many of them have no default, and whether it
\* takes **kwargs.  one_req(text), opt_req(text, opt=None) and two_req(a, b)
\* stand for functions a host registers with register_tool.
Sig(func) ==
    CASE func = "get_time" ->
            [pos |-> <<"xml">>, nreq |-> 0, kw |-> FALSE]
      [] func = "one_req" ->
            [pos |-> <<"text">>, nreq |-> 1, kw |-> FALSE]
      [] func = "opt_req" ->
            [pos |-> <<"text", "opt">>, nreq |-> 1, kw |-> FALSE]
      [] func = "two_req" ->
            [pos |-> <<"a", "b">>, nreq |-> 2, kw |-> FALSE]
      [] func = "Agent.pack" ->
            [pos |-> <<"message", "tool_model", "tool_name", "tool_parameter",
                       "finish_task", "other">>, nreq |-> 0, kw |-> FALSE]
      [] OTHER -> [pos |-> <<>>, nreq |-> 0, kw |-> TRUE]

\* Python's argument binding: f(**params), f(value) and f().
Keys_(kv) == {kv[j].k : j \in DOMAIN kv}
BindsKw(func, kv) ==
    /\ Sig(func).kw \/ \A k \in Keys_(kv) : InList(k, Sig(func).pos)
    /\ \A j \in 1..Sig(func).nreq : Sig(func).pos[j] \in Keys_(kv)
BindsPos(func) == Len(Sig(func).pos) >= 1 /\ Sig(func).nreq <= 1
Binds(func, mode, kv) ==
    IF mode = "kw" THEN BindsKw(func, kv)
    ELSE IF mode = "pos" THEN BindsPos(func)
    ELSE Sig(func).nreq = 0

\* dict.get on a list of pairs
HasKey(kv, k) == \E j \in DOMAIN kv : kv[j].k = k
Get(kv, k) == kv[CHOOSE j \in DOMAIN kv : kv[j].k = k /\ \A l \in DOMAIN kv : kv[l].k = k => l <= j].v

Ret(v) == [kind |-> "ret", val |-> v, exc |-> "", target |-> 0]
Raise(exc) == [kind |-> "raise", val |-> PyNone, exc |-> exc, target |-> 0]
Exit == [kind |-> "exit", val |-> PyNone, exc |-> "SystemExit", target |-> 0]
Delegate(target) == [kind |-> "delegate", val |-> PyNone, exc |-> "", target |-> target]

\* A plausible slip: the directory lookup is left unguarded.
ask_for_help_NoKeyError(kwargs) ==
    IF ~(HasKey(kwargs, "agent_id") /\ HasKey(kwargs, "message"))
    THEN Ret(Val("dict", "system: ask_for_help lacks agent_id"))
    ELSE IF Get(kwargs, "agent_id") \notin DOMAIN agent_list
    THEN Raise("KeyError")
    ELSE Delegate(agent_list[Get(kwargs, "agent_id")])

\* A plausible hardening the code lacks: an agent that already waits in the
\* call chain is not entered again.
ask_for_help_CycleGuard(kwargs) ==
    IF ~(HasKey(kwargs, "agent_id") /\ HasKey(kwargs, "message"))
    THEN Ret(Val("dict", "system: ask_for_help lacks agent_id"))
    ELSE IF Get(kwargs, "agent_id") \notin DOMAIN agent_list
    THEN Ret(Val("dict", "system: unknown uuid/alias " \o Get(kwargs, "agent_id")))
    ELSE IF \E j \in DOMAIN stack : stack[j].agent = agent_list[Get(kwargs, "agent_id")]
    THEN Ret(Val("dict", "system: delegation cycle"))
    ELSE Delegate(agent_list[Get(kwargs, "agent_id")])

\* Agent.ask_for_help(**kwargs).  Parameter values are plain text, so the
\* single-argument form finds neither an agent_id nor a message tag in it.
ask_for_help(kwargs) ==
    IF ~(HasKey(kwargs, "agent_id") /\ HasKey(kwargs, "message"))
    THEN Ret(Val("dict", "system: ask_for_help lacks agent_id"))
    ELSE IF Get(kwargs, "agent_id") \notin DOMAIN agent_list
    THEN Ret(Val("dict", "system: unknown uuid/alias " \o Get(kwargs, "agent_id")))
    ELSE Delegate(agent_list[Get(kwargs, "agent_id")])

\* A plausible slip: attempt_completion prints its report and returns, leaving
\* the exit to the marker check after the blocks.
Body_CompletionReturns(func, kwargs) ==
    CASE func = "get_time" -> {Ret(Val("str", "11:03"))}
      [] func = "Agent.ask_for_help" -> {ask_for_help(kwargs)}
      [] func = "Agent.list_agents" -> {Ret(Val("str", "agents"))}
      [] func = "Agent.attempt_completion" -> {Ret(PyNone)}
      [] func = "Agent.pack" -> {Ret(PyNone)}
      [] func \in {"one_req", "opt_req", "two_req"} ->
            {Ret(Val("str", "done")), Raise("TypeError")}
      [] OTHER -> {Ret(Val("str", "mcp content")), Raise("RuntimeError")}

\* What entering a callable with bound arguments can do.  A host function
\* returns, or raises from inside its body (a TypeError, say, of an operation
\* on its string arguments).
Body(func, kwargs) ==
    CASE func = "get_time" -> {Ret(Val("str", "11:03"))}
      [] func = "Agent.ask_for_help" -> {ask_for_help(kwargs)}
      [] func = "Agent.list_agents" -> {Ret(Val("str", "agents"))}
      [] func = "Agent.attempt_completion" -> {Exit}
      [] func = "Agent.pack" -> {Ret(PyNone)}
      [] func \in {"one_req", "opt_req", "two_req"} ->
            {Ret(Val("str", "done")), Raise("TypeError")}
      [] OTHER -> {Ret(Val("str", "mcp content")), Raise("RuntimeError")}

\* The outcomes of one call expression: a TypeError when the arguments do not
\* bind, else what the body does.
CallOutcomes(func, mode, kv) ==
    IF ~Binds(func, mode, kv) THEN {Raise("TypeError")}
    ELSE Body(func, IF mode = "kw" THEN kv
                    ELSE IF mode = "pos" THEN <<KV(Sig(func).pos[1], kv[1].v)>>
                    ELSE <<>>)

\* params[child.name] = child.text over the child tags of a block
RECURSIVE XmlParams(_)
XmlParams(children) ==
    IF children = <<>> THEN <<>>
    ELSE LET init == XmlParams(SubSeq(children, 1, Len(children) - 1))
             last == children[Len(children)]
         IN  IF HasKey(init, last.k)
             THEN [j \in DOMAIN init |-> IF init[j].k = last.k THEN last ELSE init[j]]
             ELSE Append(init, last)

\* The XML calling convention chosen from the callable's signature: named
\* arguments (or none) for **kwargs or no required parameter; the single value
\* positionally for one required parameter and one parsed parameter; otherwise
\* named arguments and, on TypeError, the raw block as one argument.
XmlOutcomes(func, c) ==
    LET params == XmlParams(c.params)
        block == <<KV("", "<" \o c.name \o ">")>>
    IN  IF Sig(func).kw \/ Sig(func).nreq = 0
        THEN IF params # <<>> THEN CallOutcomes(func, "kw", params)
                              ELSE CallOutcomes(func, "none", <<>>)
        ELSE IF Sig(func).nreq = 1 /\ Len(params) = 1
        THEN CallOutcomes(func, "pos", params)
        ELSE LET first == CallOutcomes(func, "kw", params)
             IN  (first \ {Raise("TypeError")})
                 \cup (IF Raise("TypeError") \in first
                       THEN CallOutcomes(func, "pos", block) ELSE {})

\* One evaluated call expression: the callable, how the arguments were passed
\* and whether they bound, that is, whether the body was entered.
CallAttempt(func, mode, kv) ==
    [func |-> func, mode |-> mode, args |-> kv, bound |-> Binds(func, mode, kv)]

\* A plausible slip: the one-required-one-parsed case is not singled out, so
\* the single value is passed by the child's name.
XmlTraces_NoPositional(func, c) ==
    LET params == XmlParams(c.params)
        block == <<KV("", "<" \o c.name \o ">")>>
        One(mode, kv) ==
            {[calls |-> <<CallAttempt(func, mode, kv)>>, outcome |-> o] :
                o \in CallOutcomes(func, mode, kv)}
    IN  IF Sig(func).kw \/ Sig(func).nreq = 0
        THEN IF params # <<>> THEN One("kw", params) ELSE One("none", <<>>)
        ELSE {t \in One("kw", params) : t.outcome # Raise("TypeError")}
             \cup (IF Raise("TypeError") \in CallOutcomes(func, "kw", params)
                   THEN {[calls |-> <<CallAttempt(func, "kw", params),
                                      CallAttempt(func, "pos", block)>>,
                          outcome |-> o] : o \in CallOutcomes(func, "pos", block)}
                   ELSE {})

\* A plausible slip: a block without child tags is handed over whole, as in
\* the backward-compatible fallback, instead of calling with no argument.
XmlTraces_BlockFirst(func, c) ==
    LET params == XmlParams(c.params)
        block == <<KV("", "<" \o c.name \o ">")>>
        One(mode, kv) ==
            {[calls |-> <<CallAttempt(func, mode, kv)>>, outcome |-> o] :
                o \in CallOutcomes(func, mode, kv)}
    IN  IF Sig(func).kw \/ Sig(func).nreq = 0
        THEN IF params # <<>> THEN One("kw", params) ELSE One("pos", block)
        ELSE IF Sig(func).nreq = 1 /\ Len(params) = 1
        THEN One("pos", params)
        ELSE {t \in One("kw", params) : t.outcome # Raise("TypeError")}
             \cup (IF Raise("TypeError") \in CallOutcomes(func, "kw", params)
                   THEN {[calls |-> <<CallAttempt(func, "kw", params),
                                      CallAttempt(func, "pos", block)>>,
                          outcome |-> o] : o \in CallOutcomes(func, "pos", block)}
                   ELSE {})

\* Lines 445-456 again, keeping the call expressions evaluated on the way to
\* each outcome: one, or two when the named-argument call of the last branch
\* ends in TypeError and the raw block is passed instead.
XmlTraces(func, c) ==
    LET params == XmlParams(c.params)
        block == <<KV("", "<" \o c.name \o ">")>>
        One(mode, kv) ==
            {[calls |-> <<CallAttempt(func, mode, kv)>>, outcome |-> o] :
                o \in CallOutcomes(func, mode, kv)}
    IN  IF Sig(func).kw \/ Sig(func).nreq = 0
        THEN IF params # <<>> THEN One("kw", params) ELSE One("none", <<>>)
        ELSE IF Sig(func).nreq = 1 /\ Len(params) = 1
        THEN One("pos", params)
        ELSE {t \in One("kw", params) : t.outcome # Raise("TypeError")}
             \cup (IF Raise("TypeError") \in CallOutcomes(func, "kw", params)
                   THEN {[calls |-> <<CallAttempt(func, "kw", params),
                                      CallAttempt(func, "pos", block)>>,
                          outcome |-> o] : o \in CallOutcomes(func, "pos", block)}
                   ELSE {})

(* ------------------------------ frames --------------------------------- *)
\* One invocation of conversation_with_tool.  The tail call
\* `return self.conversation_with_tool(tool=True)` continues in the same frame
\* with tool set.  text and marker are those of the last response received:
\* its text and whether "<attempt_completion>" occurs in it.
Frame(a, tool) ==
    [agent |-> a, tool |-> tool, pc |-> "send", text |-> "", marker |-> FALSE,
     native |-> FALSE, calls |-> <<>>, i |-> 1, results |-> <<>>, names |-> <<>>,
     h0 |-> 0]

Top == stack[Len(stack)]
SetTop(st, f) == [st EXCEPT ![Len(st)] = f]
Pop(st) == SubSeq(st, 1, Len(st) - 1)

\* The error text of the native convention's except clause
ErrText(tool_name, exc) == Val("str", "error in " \o tool_name \o ": " \o exc)

\* The call a frame is dispatching gets its result: one more tool_results
\* entry (and, in the XML convention, one more tool_names entry).
Resume(f, content) ==
    [f EXCEPT !.pc = "dispatch", !.i = @ + 1,
              !.results = Append(@, Result(FALSE, f.calls[f.i].id, f.calls[f.i].name, content)),
              !.names = IF f.native THEN @ ELSE Append(@, f.calls[f.i].name)]

\* An exception leaves a conversation_with_tool invocation whose callers are
\* st: each caller is inside ask_for_help.  The native convention's
\* `except Exception` turns it into the call's result; the XML convention has
\* no handler; SystemExit is no Exception and passes every handler.
RECURSIVE Propagate(_, _)
Propagate(st, exc) ==
    IF st = <<>> THEN [stack |-> <<>>, proc |-> IF exc = "SystemExit" THEN "exit" ELSE exc]
    ELSE LET caller == st[Len(st)]
         IN  IF caller.native /\ exc # "SystemExit"
             THEN [stack |-> SetTop(st, Resume(caller, ErrText(caller.calls[caller.i].name, exc))),
                   proc |-> "up"]
             ELSE Propagate(Pop(st), exc)

\* history[-1] as the value a frame returns
MsgVal(m) == Val("message", m.content.s)

(* ----------------------------- responses ------------------------------- *)
\* The calls a model response may hold, in either convention.
PeerKeys == {"u_time", "scheduling_agent", "ghost"}
CommonMenu ==
    {Call("", n, <<>>, TRUE) :
        n \in {"get_time", "mcp_tool", "list_agents", "nosuch", "history", "pack",
               "attempt_completion"}}
    \cup {Call("", "get_time", <<KV("x", "1")>>, TRUE)}
    \cup {Call("", "ask_for_help", <<KV("agent_id", k), KV("message", "m")>>, TRUE) :
            k \in PeerKeys}
\* a native call whose argument string json.loads rejects
NativeMenu == CommonMenu \cup {Call("", "get_time", <<>>, FALSE)}
\* a block the regex extracts (its tag is a \w+ word) but in which the XML
\* parser finds no root element, the tag being no XML name
XmlMenu == CommonMenu \cup {Call("", "9tool", <<>>, FALSE)}

CallSeqs(menu) == UNION {[1..n -> menu] : n \in 0..MaxCalls}
WithIds(cs) == [j \in DOMAIN cs |-> [cs[j] EXCEPT !.id = "call" \o ToString(j)]]

\* A response: whether its text holds a bare "<attempt_completion>", the
\* top-level blocks of its text, and its native tool calls (an agent without
\* function calling reads none).
ResponsesOver(fc_enabled, xmlMenu, nativeMenu) ==
    {[marker |-> m, blocks |-> b, calls |-> <<>>] : m \in BOOLEAN, b \in CallSeqs(xmlMenu)}
    \cup (IF fc_enabled
          THEN {[marker |-> m, blocks |-> <<>>, calls |-> WithIds(c)] :
                    m \in BOOLEAN, c \in CallSeqs(nativeMenu) \ {<<>>}}
          ELSE {})
Responses(fc_enabled) == ResponsesOver(fc_enabled, XmlMenu, NativeMenu)

\* The calls of SpecDel: delegation to time_agent and to an id the directory
\* does not hold, and the tool get_time
DelMenu ==
    {Call("", "ask_for_help", <<KV("agent_id", k), KV("message", "m")>>, TRUE) :
        k \in {"u_time", "ghost"}}
    \cup {Call("", "get_time", <<>>, TRUE)}

\* Blocks addressed to the tools of SpecXml's registry
HostMenu ==
    { Call("", "get_time", <<>>, TRUE),
      Call("", "mcp_tool", <<KV("q", "v")>>, TRUE),
      Call("", "one_req", <<KV("q", "v")>>, TRUE),
      Call("", "opt_req", <<KV("opt", "v")>>, TRUE),
      Call("", "one_req", <<>>, TRUE),
      Call("", "opt_req", <<KV("text", "v"), KV("opt", "w")>>, TRUE),
      Call("", "two_req", <<KV("a", "1"), KV("b", "2")>>, TRUE),
      Call("", "two_req", <<KV("a", "1")>>, TRUE) }

\* "<attempt_completion>" in full_content
RawHasMarker(r) ==
    r.marker \/ \E j \in DOMAIN r.blocks : r.blocks[j].name = "attempt_completion"

(* ------------------------------ payload -------------------------------- *)
\* The schemas of the three built-ins (lines 154-196)
builtin_tools_schema ==
    << [name |-> "ask_for_help", description |-> "ask another agent",
        parameters |-> "{agent_id: string, message: string; required: both}"],
       [name |-> "list_agents", description |-> "list the agents",
        parameters |-> EmptyObject],
       [name |-> "attempt_completion", description |-> "finish and exit",
        parameters |-> "{report_content: string}"] >>

IsExposed(b) == hasattr(b.name) /\ AttrCallable[b.name]

\* A plausible slip: the built-ins are put in front of the registry tools.
PayloadTools_BuiltinsFirst(a) ==
    SelectSeq(builtin_tools_schema, IsExposed) \o get_all_tools_schema(inst[a].uuid)

\* payload["tools"] of an agent with function calling: the schemas of the
\* permitted registry tools, then those of the built-ins the agent has as
\* callable attributes (lines 151, 199-201).
PayloadTools(a) ==
    get_all_tools_schema(inst[a].uuid) \o SelectSeq(builtin_tools_schema, IsExposed)

\* What of the payload concerns tools: with function calling the key "tools"
\* is set (lines 203-209), without it the payload has no such key (214-219).
Payload(a) ==
    IF inst[a].fc THEN [has_tools |-> TRUE, tools |-> PayloadTools(a)]
    ELSE [has_tools |-> FALSE, tools |-> <<>>]

(* ------------------------------ actions -------------------------------- *)
UserMsg == Msg("user", "", "", Val("str", "m"), <<>>)

\* The host calls conversation_with_tool(messages) on an agent: the user
\* message is appended and the request is built.
UserTurn ==
    /\ proc = "up" /\ stack = <<>> /\ reqs < MaxReq
    /\ \E a \in DOMAIN inst :
        /\ history' = [history EXCEPT ![a] = Append(@, UserMsg)]
        /\ stack' = <<Frame(a, FALSE)>>
    /\ ret' = NoRet
    /\ UNCHANGED <<tools, uuid_to_name, agent_list, inst, lastCheck, parseVars, auxVars>>
    /\ UNCHANGED <<proc, reqs, reqlog, raised, lastDispatch, markerSeen, entered>>

\* requests.post and the reading of the response: full_content and
\* tool_calls_list.  With function calling and at least one tool call the
\* assistant message is appended and the native calls are dispatched;
\* otherwise the blocks of the text are.
SendOver(xmlMenu, nativeMenu, maxReq) ==
    /\ proc = "up" /\ stack # <<>> /\ Top.pc = "send" /\ reqs < maxReq
    /\ \E r \in ResponsesOver(inst[Top.agent].fc, xmlMenu, nativeMenu) :
        LET a == Top.agent
            isNative == inst[a].fc /\ r.calls # <<>>
            h == IF isNative
                 THEN [history EXCEPT ![a] = Append(@, Msg("assistant", "", "", PyNone, r.calls))]
                 ELSE history
        IN  /\ reqs' = reqs + 1
            /\ reqlog' = Append(reqlog, [agent |-> a, len |-> Len(history[a]),
                                         has_tools |-> Payload(a).has_tools,
                                         tools |-> Payload(a).tools])
            /\ markerSeen' = (markerSeen \/ RawHasMarker(r))
            /\ history' = h
            /\ stack' = SetTop(stack,
                  [Top EXCEPT !.pc = "dispatch", !.text = "r" \o ToString(reqs + 1),
                              !.marker = RawHasMarker(r), !.native = isNative,
                              !.calls = IF isNative THEN r.calls ELSE r.blocks,
                              !.i = 1, !.results = <<>>, !.names = <<>>,
                              !.h0 = Len(h[a])])
    /\ UNCHANGED <<tools, uuid_to_name, agent_list, inst, lastCheck, parseVars, auxVars>>
    /\ UNCHANGED <<proc, ret, raised, lastDispatch, entered>>

Send == SendOver(XmlMenu, NativeMenu, MaxReq)

\* The effect of one outcome of the call the top frame is dispatching.
ApplyOutcome(o, site) ==
    CASE o.kind = "ret" ->
            [stack |-> SetTop(stack, Resume(Top, o.val)), proc |-> "up",
             history |-> history, raised |-> raised]
      [] o.kind = "exit" ->
            [stack |-> <<>>, proc |-> "exit", history |-> history, raised |-> raised]
      [] o.kind = "delegate" ->
            [stack |-> Append(SetTop(stack, [Top EXCEPT !.pc = "await"]), Frame(o.target, FALSE)),
             proc |-> "up",
             history |-> [history EXCEPT ![o.target] = Append(@, UserMsg)],
             raised |-> raised]
      [] OTHER ->
            IF Top.native
            THEN [stack |-> SetTop(stack, Resume(Top, ErrText(Top.calls[Top.i].name, o.exc))),
                  proc |-> "up", history |-> history, raised |-> raised]
            ELSE [stack |-> Propagate(Pop(stack), o.exc).stack,
                  proc |-> Propagate(Pop(stack), o.exc).proc,
                  history |-> history,
                  raised |-> [exc |-> o.exc, site |-> site, agent |-> Top.agent]]

\* An exception raised by the loop's own code leaves the top frame.
Throw(exc, site) ==
    /\ stack' = Propagate(Pop(stack), exc).stack
    /\ proc' = Propagate(Pop(stack), exc).proc
    /\ raised' = [exc |-> exc, site |-> site, agent |-> Top.agent]

\* One iteration of `for tool_call in tool_calls_list` (lines 324-364).
DispatchNative ==
    /\ proc = "up" /\ stack # <<>> /\ Top.pc = "dispatch" /\ Top.native
    /\ Top.i <= Len(Top.calls)
    /\ LET c == Top.calls[Top.i]
           res == Resolve(Top.agent, c.name)
           seen == [agent |-> Top.agent, name |-> c.name, src |-> res.src,
                    func |-> res.func, invoked |-> FALSE, fc |-> TRUE, ok |-> c.ok,
                    params |-> c.params]
       IN  IF res.src = "none"
           THEN /\ stack' = SetTop(stack,
                       [Top EXCEPT !.i = @ + 1,
                                   !.results = Append(@, Result(TRUE, "", "", ErrText(c.name, "not found")))])
                /\ lastDispatch' = seen
                /\ entered' = <<>>
                /\ UNCHANGED <<history, proc, raised>>
           ELSE IF ~c.ok
           THEN /\ stack' = SetTop(stack, Resume(Top, ErrText(c.name, "JSONDecodeError")))
                /\ lastDispatch' = seen
                /\ entered' = <<>>
                /\ UNCHANGED <<history, proc, raised>>
           ELSE \E o \in CallOutcomes(res.func, "kw", c.params) :
                /\ o.kind = "delegate" => Len(stack) < MaxDepth
                /\ entered' = <<CallAttempt(res.func, "kw", c.params)>>
                /\ stack' = ApplyOutcome(o, "native_call").stack
                /\ proc' = ApplyOutcome(o, "native_call").proc
                /\ history' = ApplyOutcome(o, "native_call").history
                /\ raised' = ApplyOutcome(o, "native_call").raised
                /\ lastDispatch' = [seen EXCEPT !.invoked = TRUE]
    /\ UNCHANGED <<tools, uuid_to_name, agent_list, inst, lastCheck, parseVars, auxVars>>
    /\ UNCHANGED <<reqs, reqlog, ret, markerSeen>>

\* The index of the first {"error": ...} entry of tool_results, or 0
FirstErrOnly(results) ==
    IF \E j \in DOMAIN results : results[j].err_only
    THEN CHOOSE j \in DOMAIN results :
            results[j].err_only /\ \A l \in 1..(j - 1) : ~results[l].err_only
    ELSE 0

ToolMsgs(results) ==
    [j \in DOMAIN results |-> Msg("tool", results[j].name, results[j].id, results[j].content, <<>>)]

\* Lines 366-377: every entry of tool_results becomes a tool-role message
\* (reading result['tool_call_id'] of an {"error": ...} entry raises KeyError),
\* then the loop continues with tool=True.
AppendNative ==
    /\ proc = "up" /\ stack # <<>> /\ Top.pc = "dispatch" /\ Top.native
    /\ Top.i > Len(Top.calls)
    /\ LET k == FirstErrOnly(Top.results)
           a == Top.agent
       IN  IF k = 0
           THEN /\ history' = [history EXCEPT ![a] = @ \o ToolMsgs(Top.results)]
                /\ stack' = SetTop(stack, [Top EXCEPT !.pc = "send", !.tool = TRUE])
                /\ UNCHANGED <<proc, raised>>
           ELSE /\ history' = [history EXCEPT ![a] = @ \o ToolMsgs(SubSeq(Top.results, 1, k - 1))]
                /\ Throw("KeyError", "native_append")
    /\ UNCHANGED <<tools, uuid_to_name, agent_list, inst, lastCheck, parseVars, auxVars>>
    /\ UNCHANGED <<reqs, reqlog, ret, lastDispatch, markerSeen, entered>>

\* One iteration of `for block in xml_blocks` (lines 387-459): no root raises
\* ValueError; an unresolved name calls self._get_all_available_tools(), which
\* class Agent does not define, so AttributeError is raised before anything is
\* appended; a resolved callable is called the way its signature selects, with
\* no handler around the call but the TypeError fallback.
DispatchXml ==
    /\ proc = "up" /\ stack # <<>> /\ Top.pc = "dispatch" /\ ~Top.native
    /\ Top.i <= Len(Top.calls)
    /\ LET c == Top.calls[Top.i]
           res == Resolve(Top.agent, c.name)
           seen == [agent |-> Top.agent, name |-> c.name, src |-> res.src,
                    func |-> res.func, invoked |-> FALSE, fc |-> FALSE, ok |-> c.ok,
                    params |-> c.params]
       IN  IF ~c.ok
           THEN /\ Throw("ValueError", "xml_parse")
                /\ UNCHANGED <<history, lastDispatch, entered>>
           ELSE IF res.src = "none"
           THEN /\ Throw("AttributeError", "xml_not_found")
                /\ lastDispatch' = seen
                /\ entered' = <<>>
                /\ UNCHANGED history
           ELSE \E o \in XmlOutcomes(res.func, c) :
                \E t \in {u \in XmlTraces(res.func, c) : u.outcome = o} :
                /\ o.kind = "delegate" => Len(stack) < MaxDepth
                /\ entered' = t.calls
                /\ stack' = ApplyOutcome(o, "xml_call").stack
                /\ proc' = ApplyOutcome(o, "xml_call").proc
                /\ history' = ApplyOutcome(o, "xml_call").history
                /\ raised' = ApplyOutcome(o, "xml_call").raised
                /\ lastDispatch' = [seen EXCEPT !.invoked = TRUE]
    /\ UNCHANGED <<tools, uuid_to_name, agent_list, inst, lastCheck, parseVars, auxVars>>
    /\ UNCHANGED <<reqs, reqlog, ret, markerSeen>>

\* Lines 470-475: results are appended while tool_names has a label for them.
XmlMsgs(results, names) ==
    [j \in 1..(IF Len(results) < Len(names) THEN Len(results) ELSE Len(names)) |->
        Msg("system", names[j], "", results[j].content, <<>>)]

\* The return of a frame: to the host, or into the ask_for_help of the caller.
ReturnStep(v) ==
    IF Len(stack) = 1
    THEN /\ stack' = <<>>
         /\ ret' = [done |-> TRUE, val |-> v, text |-> Top.text, tool |-> Top.tool]
    ELSE /\ stack' = SetTop(Pop(stack), Resume(stack[Len(stack) - 1], v))
         /\ ret' = ret

\* Lines 461-483, after the blocks: the marker check exits the process;
\* results are appended and the loop continues with tool=True; with no
\* result the frame returns history[-1] when tool is set, else full_content.
FinishXml ==
    /\ proc = "up" /\ stack # <<>> /\ Top.pc = "dispatch" /\ ~Top.native
    /\ Top.i > Len(Top.calls)
    /\ LET a == Top.agent
       IN  IF Top.marker
           THEN /\ stack' = <<>>
                /\ proc' = "exit"
                /\ UNCHANGED <<history, ret>>
           ELSE IF Top.results # <<>>
           THEN /\ history' = [history EXCEPT ![a] = @ \o XmlMsgs(Top.results, Top.names)]
                /\ stack' = SetTop(stack, [Top EXCEPT !.pc = "send", !.tool = TRUE])
                /\ UNCHANGED <<proc, ret>>
           ELSE /\ ReturnStep(IF Top.tool THEN MsgVal(history[a][Len(history[a])])
                                          ELSE Val("text", Top.text))
                /\ UNCHANGED <<history, proc>>
    /\ UNCHANGED <<tools, uuid_to_name, agent_list, inst, lastCheck, parseVars, auxVars>>
    /\ UNCHANGED <<reqs, reqlog, raised, lastDispatch, markerSeen, entered>>

(* ------------------------------- Spec ---------------------------------- *)
\* The state main.py sets up: get_time for time_agent only, the two agents
\* (scheduling_agent with function calling; time_agent without it, as in
\* main.py, or with it), and two tools of an MCP provider: mcp_tool for every
\* agent, and one named list_agents for scheduling_agent only.
Init ==
    /\ tools = << ToolInfo("get_time", "get_time",
                           AllowList(<<"u_time", "time_agent">>), "d", EmptyObject),
                  ToolInfo("mcp_tool", "sync_wrapper:mcp_tool",
                           NoList, "d", EmptyObject),
                  ToolInfo("list_agents", "sync_wrapper:list_agents",
                           AllowList(<<"scheduling_agent">>), "d", EmptyObject) >>
    /\ uuid_to_name = [u_sched |-> "scheduling_agent", u_time |-> "time_agent"]
    /\ \E fc_model \in BOOLEAN :
         inst = << [uuid |-> "u_sched", name |-> "scheduling_agent", fc |-> TRUE],
                   [uuid |-> "u_time", name |-> "time_agent", fc |-> fc_model] >>
    /\ agent_list = [u_sched |-> 1, scheduling_agent |-> 1, u_time |-> 2, time_agent |-> 2]
    /\ history = << <<SystemMsg>>, <<SystemMsg>> >>
    /\ lastCheck = NoCheck
    /\ LoopIdle
    /\ ParseIdle
    /\ AuxIdle

Next == UserTurn \/ Send \/ DispatchNative \/ AppendNative \/ DispatchXml \/ FinishXml

Spec == Init /\ [][Next]_vars

(* ============ Agent_Base_.py: reading a streamed response ============== *)
\* One element of delta['tool_calls'] that carries an index (line 258 skips
\* the others): its id and function name, and its argument string or None.
Fragments ==
    {[index |-> i, id |-> d, name |-> n, arguments |-> a] :
        i \in 0..MaxIndex, d \in {"c1", "c2"}, n \in {"f", "g"},
        a \in {PyNone, Val("str", "a"), Val("str", "b")}}

\* Lines 258-270: an index at or past the end of tool_calls_list appends a
\* new entry; any other index adds the argument string to the entry at that
\* position.
Accumulate(list, call) ==
    IF call.index >= Len(list)
    THEN Append(list, [id |-> call.id, name |-> call.name,
                       arguments |-> IF call.arguments = PyNone THEN "" ELSE call.arguments.s])
    ELSE IF call.arguments # PyNone
    THEN [list EXCEPT ![call.index + 1].arguments = @ \o call.arguments.s]
    ELSE list

\* One fragment of the stream is read.
ReadFragment ==
    /\ Len(deltas) < MaxFrags
    /\ \E call \in Fragments :
        /\ deltas' = Append(deltas, call)
        /\ tool_calls_list' = Accumulate(tool_calls_list, call)
    /\ UNCHANGED <<regVars, loopVars, auxVars, full_content, xml_calls, extracted>>

AccNext == ReadFragment

SpecAcc == RegInit /\ [][AccNext]_vars

(* ============ Agent_Base_.py: extracting the XML blocks ================ *)
\* A response text as the two patterns see it: a sequence of tags <n>, </n>
\* (n a \w+ word, no attributes) and characters other than "<".
Open(n) == [k |-> "open", n |-> n]
Close(n) == [k |-> "close", n |-> n]
Chr(c) == [k |-> "text", n |-> c]
TagNames == {"foo", "x", "thinking"}
Tokens == {Open(n) : n \in TagNames} \cup {Close(n) : n \in TagNames} \cup {Chr("1")}
Texts == UNION {[1..n -> Tokens] : n \in 0..MaxTokens}

\* clean_pattern.sub('', full_content): the tags <out_text>, </out_text>,
\* <thinking>, </thinking> are deleted; what stood between them stays.
IsWrapperTag(t) == t.k \in {"open", "close"} /\ t.n \in {"out_text", "thinking"}
KeepToken(t) == ~IsWrapperTag(t)
clean_pattern_sub(ts) == SelectSeq(ts, KeepToken)

\* xml_pattern.finditer: from position p on, the leftmost <n> that some later
\* </n> follows opens a match; the lazy .*? ends it at the first such </n>;
\* the search goes on after the match.
FirstClose(ts, p) ==
    CHOOSE q \in (p + 1)..Len(ts) :
        /\ ts[q] = Close(ts[p].n)
        /\ \A r \in (p + 1)..(q - 1) : ts[r] # Close(ts[p].n)
RECURSIVE xml_pattern_finditer(_, _)
xml_pattern_finditer(ts, p) ==
    IF p > Len(ts) THEN <<>>
    ELSE IF ts[p].k = "open" /\ \E q \in (p + 1)..Len(ts) : ts[q] = Close(ts[p].n)
    THEN <<SubSeq(ts, p, FirstClose(ts, p))>>
         \o xml_pattern_finditer(ts, FirstClose(ts, p) + 1)
    ELSE xml_pattern_finditer(ts, p + 1)

\* root.children of the parsed block, as (child.name, child.text) in document
\* order.  ts is what stands between the root's tags, depth the number of
\* elements open below the root, cur the direct child being read.  An element
\* still open at the end of the block is closed there (the tree builder pops
\* every open tag at the end of input); a closing tag closes the element in
\* progress, and one met directly under the root is dropped.
RECURSIVE RootChildren(_, _, _, _, _)
RootChildren(ts, i, depth, cur, acc) ==
    IF i > Len(ts) THEN (IF depth > 0 THEN Append(acc, cur) ELSE acc)
    ELSE IF ts[i].k = "open"
    THEN IF depth = 0 THEN RootChildren(ts, i + 1, 1, KV(ts[i].n, ""), acc)
                      ELSE RootChildren(ts, i + 1, depth + 1, cur, acc)
    ELSE IF ts[i].k = "close"
    THEN IF depth = 0 THEN RootChildren(ts, i + 1, 0, cur, acc)
         ELSE IF depth = 1 THEN RootChildren(ts, i + 1, 0, cur, Append(acc, cur))
         ELSE RootChildren(ts, i + 1, depth - 1, cur, acc)
    ELSE IF depth = 0 THEN RootChildren(ts, i + 1, 0, cur, acc)
         ELSE RootChildren(ts, i + 1, depth, [cur EXCEPT !.v = @ \o ts[i].n], acc)

\* Lines 380-393 and 429-432: the blocks of the cleaned text, each as the
\* call the loop goes on to dispatch: root.name and the child tags in order.
ParseBlock(block) ==
    Call("", block[1].n,
         RootChildren(SubSeq(block, 2, Len(block) - 1), 1, 0, KV("", ""), <<>>), TRUE)
ExtractCalls(text) ==
    LET xml_blocks == xml_pattern_finditer(clean_pattern_sub(text), 1)
    IN  [j \in DOMAIN xml_blocks |-> ParseBlock(xml_blocks[j])]

ExtInit ==
    /\ tools = <<>>
    /\ uuid_to_name = <<>>
    /\ agent_list = <<>>
    /\ inst = <<>>
    /\ history = <<>>
    /\ lastCheck = NoCheck
    /\ LoopIdle
    /\ deltas = <<>>
    /\ tool_calls_list = <<>>
    /\ full_content \in Texts
    /\ xml_calls = <<>>
    /\ extracted = FALSE
    /\ AuxIdle

\* The loop reaches line 380 with full_content and extracts its blocks.
ExtractBlocks ==
    /\ ~extracted
    /\ xml_calls' = ExtractCalls(full_content)
    /\ extracted' = TRUE
    /\ UNCHANGED <<regVars, loopVars, auxVars, deltas, tool_calls_list, full_content>>

ExtNext == ExtractBlocks

SpecExt == ExtInit /\ [][ExtNext]_vars

(* ------------ SpecXml: the XML convention over host tools -------------- *)
\* main.py's agents over a registry that also holds an MCP tool and three
\* host functions, open to every agent, of one and of two required parameters.
XmlInit ==
    /\ tools = << ToolInfo("get_time", "get_time",
                           AllowList(<<"u_time", "time_agent">>), "d", EmptyObject),
                  ToolInfo("mcp_tool", "sync_wrapper:mcp_tool",
                           NoList, "d", EmptyObject),
                  ToolInfo("one_req", "one_req",
                           NoList, "d", "None"),
                  ToolInfo("opt_req", "opt_req",
                           NoList, "d", "None"),
                  ToolInfo("two_req", "two_req",
                           NoList, "d", "None") >>
    /\ uuid_to_name = [u_sched |-> "scheduling_agent", u_time |-> "time_agent"]
    /\ inst = << [uuid |-> "u_sched", name |-> "scheduling_agent", fc |-> TRUE],
                 [uuid |-> "u_time", name |-> "time_agent", fc |-> FALSE] >>
    /\ agent_list = [u_sched |-> 1, scheduling_agent |-> 1, u_time |-> 2, time_agent |-> 2]
    /\ history = << <<SystemMsg>>, <<SystemMsg>> >>
    /\ lastCheck = NoCheck
    /\ LoopIdle
    /\ ParseIdle
    /\ AuxIdle

\* A response that holds blocks only
SendXml == SendOver(HostMenu, {}, MaxReq)

XmlNext == UserTurn \/ SendXml \/ DispatchXml \/ FinishXml

SpecXml == XmlInit /\ [][XmlNext]_vars

(* ------------------- SpecDel: delegation between agents ---------------- *)
\* A response of a run in which the agents delegate and use get_time
SendDel == SendOver(DelMenu, DelMenu, MaxDelReq)

DelNext == UserTurn \/ SendDel \/ DispatchNative \/ AppendNative \/ DispatchXml \/ FinishXml

SpecDel == Init /\ [][DelNext]_vars

(* ------------- SpecLife: construction, probes and the loop ------------- *)
\* The classes a host decorates with register_agent: their uuid and name
LifeAgents == {[uuid |-> "k1", name |-> "n1"], [uuid |-> "k2", name |-> "n2"]}

\* The calls of SpecLife: a tool continuation and a delegation
LifeMenu ==
    { Call("", "list_agents", <<>>, TRUE),
      Call("", "ask_for_help", <<KV("agent_id", "k1"), KV("message", "m")>>, TRUE) }

\* One probe request as the log keeps it: whose it was, whether its status was
\* 200, and whether __init__ sent it
ProbeRec(uuid, name, status_ok, ctor) ==
    [uuid |-> uuid, name |-> name, ok |-> status_ok, ctor |-> ctor]

\* A class is decorated with register_agent: __init__ runs, the probe is sent,
\* and a failed probe raises ConnectionError out of the decorator.
Construct ==
    /\ proc = "up" /\ stack = <<>>
    /\ Len(inst) < MaxLifeAgents /\ Len(probes) < MaxProbes
    /\ \E cls \in LifeAgents, fc \in BOOLEAN, status_ok \in BOOLEAN :
        LET probe == Connectivity(<<ComposedMsg, ProbeMsg>>, status_ok)
        IN  /\ register_agent(cls.uuid, cls.name, fc, status_ok)
            /\ probes' = probes \o [j \in 1..probe.posts |->
                                        ProbeRec(cls.uuid, cls.name, status_ok, TRUE)]
            /\ raised' = IF probe.ok THEN NoRaise
                         ELSE [exc |-> "ConnectionError", site |-> "construct", agent |-> 0]
    /\ UNCHANGED <<tools, lastCheck, parseVars, reglog, lister, mcpVars>>
    /\ UNCHANGED <<stack, proc, reqs, reqlog, ret, lastDispatch, markerSeen, entered>>

\* The host calls Connectivity() again on a constructed agent.
Reprobe ==
    /\ proc = "up" /\ stack = <<>> /\ Len(probes) < MaxProbes
    /\ \E a \in DOMAIN inst, status_ok \in BOOLEAN :
        LET probe == Connectivity(Append(history[a], ProbeMsg), status_ok)
        IN  /\ history' = [history EXCEPT ![a] = probe.history]
            /\ probes' = probes \o [j \in 1..probe.posts |->
                                        ProbeRec(inst[a].uuid, inst[a].name, status_ok, FALSE)]
    /\ UNCHANGED <<tools, uuid_to_name, agent_list, inst, lastCheck, parseVars, reglog, lister, mcpVars>>
    /\ UNCHANGED loopVars

SendLife == SendOver(LifeMenu, LifeMenu, MaxReq)

LifeNext ==
    \/ Construct \/ Reprobe \/ UserTurn \/ SendLife
    \/ DispatchNative \/ AppendNative \/ DispatchXml \/ FinishXml

SpecLife == RegInit /\ [][LifeNext]_vars

(* ------------- SpecList: registrations and tool listings --------------- *)
\* What a host or an MCP provider passes to register_tool
ListFuncs == {"f", "g"}
ListParameters == {"None", "obj1"}

\* The registry before any tool is registered; the uuid k1 stands for the
\* agent named k2.
ListInit ==
    /\ tools = <<>>
    /\ uuid_to_name = ("k1" :> "k2")
    /\ agent_list = <<>>
    /\ inst = <<>>
    /\ history = <<>>
    /\ lastCheck = NoCheck
    /\ LoopIdle
    /\ ParseIdle
    /\ AuxIdle

\* One register_tool call; the name goes to the log of registrations.
RegisterLogged ==
    /\ Len(reglog) < MaxRegs
    /\ \E name \in RegToolNames, al \in AllowedInputs, func \in ListFuncs,
          parameters \in ListParameters :
        /\ tools' = register_tool(tools, al, "d", name, parameters, func)
        /\ reglog' = Append(reglog, name)

ListRegisterTool ==
    /\ RegisterLogged
    /\ lister' = NoLister
    /\ UNCHANGED <<uuid_to_name, agent_list, inst, history, lastCheck, probes, mcpVars>>
    /\ UNCHANGED <<loopVars, parseVars>>

\* An agent key asks for its tools, as schemas and as infos.
ListAll ==
    /\ \E key \in Keys :
        lister' = [status |-> "done", key |-> key, used |-> Len(tools),
                   pos |-> Len(tools) + 1,
                   out |-> get_all_tools_schema(key), info |-> get_all_tools_info(key)]
    /\ UNCHANGED <<regVars, loopVars, parseVars, probes, reglog, mcpVars>>

ListNext == ListRegisterTool \/ ListAll

SpecList == ListInit /\ [][ListNext]_vars

(* ------- SpecConc: a listing in one thread, registrations in another ---- *)
\* A thread registers a tool while another thread may be listing.
ConcRegisterTool ==
    /\ RegisterLogged
    /\ UNCHANGED <<uuid_to_name, agent_list, inst, history, lastCheck, probes, lister, mcpVars>>
    /\ UNCHANGED <<loopVars, parseVars>>

\* get_all_tools_schema is entered: the iterator over self._tools.items() is
\* created and remembers the size of the dict.
ListBegin ==
    /\ lister.status # "run"
    /\ \E key \in Keys :
        lister' = [status |-> "run", key |-> key, used |-> Len(tools), pos |-> 1,
                   out |-> <<>>, info |-> <<>>]
    /\ UNCHANGED <<regVars, loopVars, parseVars, probes, reglog, mcpVars>>

\* One step of `for tool_name, tool_info in self._tools.items()`: the iterator
\* raises RuntimeError when the dict has changed size since it was created;
\* else it ends after the last item, or yields the item at its position, which
\* the body appends when the key is permitted.
ListStep ==
    /\ lister.status = "run"
    /\ lister' =
          IF Len(tools) # lister.used
          THEN [lister EXCEPT !.status = "error"]
          ELSE IF lister.pos > Len(tools)
          THEN [lister EXCEPT !.status = "done"]
          ELSE [lister EXCEPT
                  !.pos = @ + 1,
                  !.out = IF check_permission(lister.key, tools[lister.pos].name)
                          THEN Append(@, tools[lister.pos].schema) ELSE @]
    /\ UNCHANGED <<regVars, loopVars, parseVars, probes, reglog, mcpVars>>

ConcNext == ConcRegisterTool \/ ListBegin \/ ListStep

SpecConc == ListInit /\ [][ConcNext]_vars

(* ------------- SpecPay: requests while the registry grows -------------- *)
\* What a host registers between the turns of main.py's agents
PayToolNames == {"t1", "get_time"}
PayAllowed ==
    { [kind |-> "none", s |-> "", l |-> <<>>],
      [kind |-> "str", s |-> "scheduling_agent", l |-> <<>>],
      [kind |-> "list", s |-> "", l |-> <<"u_time", "time_agent">>] }
PayMenu == {Call("", "t1", <<>>, TRUE)}

\* A register_tool call between two steps of the loop
PayRegisterTool ==
    /\ proc = "up" /\ Len(reglog) < MaxPayRegs
    /\ \E name \in PayToolNames, al \in PayAllowed :
        /\ tools' = register_tool(tools, al, "d", name, "None", "f")
        /\ reglog' = Append(reglog, name)
    /\ UNCHANGED <<uuid_to_name, agent_list, inst, history, lastCheck, probes, lister, mcpVars>>
    /\ UNCHANGED <<loopVars, parseVars>>

SendPay == SendOver(PayMenu, PayMenu, MaxReq)

PayNext ==
    \/ PayRegisterTool \/ UserTurn \/ SendPay
    \/ DispatchNative \/ AppendNative \/ DispatchXml \/ FinishXml

SpecPay == Init /\ [][PayNext]_vars

(* ----------- SpecCycFair: agents that delegate to each other ----------- *)
\* The calls of SpecCycFair: delegation to either agent
CycMenu ==
    {Call("", "ask_for_help", <<KV("agent_id", k), KV("message", "m")>>, TRUE) :
        k \in {"u_sched", "u_time"}}

SendCyc == SendOver(CycMenu, CycMenu, MaxCycReq)

CycNext == UserTurn \/ SendCyc \/ DispatchNative \/ AppendNative \/ DispatchXml \/ FinishXml

\* The interpreter runs the loop's code to its next request, return or exit
\* (the steps that need no response of the model); whether and what the model
\* answers is not up to the program.
SpecCycFair ==
    /\ Init /\ [][CycNext]_vars
    /\ WF_vars(DispatchNative \/ AppendNative \/ DispatchXml \/ FinishXml)

(* ------------------- SpecMcp: the MCP bridge ---------------------------- *)
\* The default of MCPSessionPool(max_idle_time), in seconds
max_idle_time == 3600

\* Server scripts, each offering one tool
McpPaths == {"p1", "p2"}
McpToolOf(server_path) == "tool_" \o server_path
McpWrapperOf(server_path) == "sync_wrapper:" \o McpToolOf(server_path)

\* del d[k]
DictDel(d, ks) ==
    IF DOMAIN d \ ks = {} THEN <<>> ELSE [k \in DOMAIN d \ ks |-> d[k]]

\* _initialize_mcp_session(server_path): a server process is started and a new
\* session on it is initialised; the info holds that session.
_initialize_mcp_session(ss, server_path, t) ==
    [sessions |-> Append(ss, [path |-> server_path, open |-> TRUE]),
     info |-> [session |-> Len(ss) + 1, initialized |-> TRUE, last_used |-> t]]

\* MCPSessionPool._close_session for each of paths, all held by the pool:
\* the session is left, the entry deleted and True answered; where leaving
\* the session raises (failing), the entry is deleted and False answered.
_close_session(paths, failing) ==
    [sessions |-> [j \in DOMAIN sessions |->
                      IF \E q \in paths \ failing : _pool[q].session = j
                      THEN [sessions[j] EXCEPT !.open = FALSE]
                      ELSE sessions[j]],
     pool |-> DictDel(_pool, paths),
     count |-> Cardinality(paths \ failing)]

\* sync_wrapper(**kwargs) of a tool of server_path: the session is read from
\* MCP_SESSION_POOL; none, or one not initialised, raises RuntimeError.
sync_wrapper(server_path) ==
    IF server_path \notin DOMAIN MCP_SESSION_POOL
       \/ ~MCP_SESSION_POOL[server_path].initialized
    THEN [used |-> 0, error |-> "RuntimeError: session not initialized"]
    ELSE LET id == MCP_SESSION_POOL[server_path].session
         IN  IF sessions[id].open
             THEN [used |-> id, error |-> ""]
             ELSE [used |-> id, error |-> "call on a closed session"]

McpOp(op, path, ok, count, used, error) ==
    [n |-> mcpcall.n + 1, op |-> op, path |-> path, ok |-> ok, count |-> count,
     used |-> used, error |-> error]

\* register_mcp_tools(server_path): a session is initialised and stored in
\* MCP_SESSION_POOL, and the server's tool is registered with its wrapper.
McpRegister ==
    /\ mcpcall.n < MaxMcpOps /\ Len(sessions) < MaxSessions
    /\ \E p \in McpPaths :
        LET new == _initialize_mcp_session(sessions, p, now)
        IN  /\ sessions' = new.sessions
            /\ MCP_SESSION_POOL' = DictSet(MCP_SESSION_POOL, p, new.info)
            /\ tools' = register_tool(tools, [kind |-> "none", s |-> "", l |-> <<>>],
                                      "d", McpToolOf(p), "obj1", McpWrapperOf(p))
            /\ mcpcall' = McpOp("register", p, TRUE, 1, new.info.session, "")
    /\ UNCHANGED <<_pool, now>>
    /\ UNCHANGED <<uuid_to_name, agent_list, inst, history, lastCheck>>
    /\ UNCHANGED <<loopVars, parseVars, probes, reglog, lister>>

\* MCPSessionPool.get_session(server_path), as mcp_session_context calls it:
\* the pool's initialised session is reused, else one is created.
McpGetSession ==
    /\ mcpcall.n < MaxMcpOps
    /\ \E p \in McpPaths :
        IF p \in DOMAIN _pool /\ _pool[p].initialized
        THEN /\ _pool' = [_pool EXCEPT ![p].last_used = now]
             /\ mcpcall' = McpOp("get_session", p, TRUE, 0, _pool[p].session, "")
             /\ UNCHANGED sessions
        ELSE LET new == _initialize_mcp_session(sessions, p, now)
             IN  /\ Len(sessions) < MaxSessions
                 /\ sessions' = new.sessions
                 /\ _pool' = DictSet(_pool, p, new.info)
                 /\ mcpcall' = McpOp("get_session", p, TRUE, 0, new.info.session, "")
    /\ UNCHANGED <<MCP_SESSION_POOL, now>>
    /\ UNCHANGED <<regVars, loopVars, parseVars, probes, reglog, lister>>

\* close_mcp_session(server_path): the pool closes the session it holds for
\* the path and answers whether it did; a path it does not hold answers False.
McpClose ==
    /\ mcpcall.n < MaxMcpOps
    /\ \E p \in McpPaths :
        IF p \notin DOMAIN _pool
        THEN /\ mcpcall' = McpOp("close", p, FALSE, 0, 0, "")
             /\ UNCHANGED <<_pool, sessions>>
        ELSE \E failing \in SUBSET {p} :
             LET c == _close_session({p}, failing)
             IN  /\ sessions' = c.sessions
                 /\ _pool' = c.pool
                 /\ mcpcall' = McpOp("close", p, c.count = 1, c.count, 0, "")
    /\ UNCHANGED <<MCP_SESSION_POOL, now>>
    /\ UNCHANGED <<regVars, loopVars, parseVars, probes, reglog, lister>>

\* close_all_mcp_sessions(): every session the pool holds is closed, and the
\* number closed is answered.
McpCloseAll ==
    /\ mcpcall.n < MaxMcpOps
    /\ \E failing \in SUBSET (DOMAIN _pool) :
        LET c == _close_session(DOMAIN _pool, failing)
        IN  /\ sessions' = c.sessions
            /\ _pool' = c.pool
            /\ mcpcall' = McpOp("close_all", "", TRUE, c.count, 0, "")
    /\ UNCHANGED <<MCP_SESSION_POOL, now>>
    /\ UNCHANGED <<regVars, loopVars, parseVars, probes, reglog, lister>>

\* MCPSessionPool.health_check(): the sessions of the pool idle for longer
\* than max_idle_time are closed, and the number closed is answered.
McpHealthCheck ==
    /\ mcpcall.n < MaxMcpOps
    /\ LET expired == {p \in DOMAIN _pool : now - _pool[p].last_used > max_idle_time}
       IN  \E failing \in SUBSET expired :
           LET c == _close_session(expired, failing)
           IN  /\ sessions' = c.sessions
               /\ _pool' = c.pool
               /\ mcpcall' = McpOp("health_check", "", TRUE, c.count, 0, "")
    /\ UNCHANGED <<MCP_SESSION_POOL, now>>
    /\ UNCHANGED <<regVars, loopVars, parseVars, probes, reglog, lister>>

\* An agent calls a tool that register_mcp_tools registered from a server.
McpCall ==
    /\ mcpcall.n < MaxMcpOps
    /\ \E p \in McpPaths :
        /\ \E j \in DOMAIN tools : tools[j].function = McpWrapperOf(p)
        /\ mcpcall' = McpOp("call", p, sync_wrapper(p).error = "", 0,
                            sync_wrapper(p).used, sync_wrapper(p).error)
    /\ UNCHANGED <<MCP_SESSION_POOL, _pool, sessions, now>>
    /\ UNCHANGED <<regVars, loopVars, parseVars, probes, reglog, lister>>

\* Time passes: a second, or as long as a session may stay idle.
McpTick ==
    /\ mcpcall.n < MaxMcpOps
    /\ \E d \in {1, max_idle_time} : now' = now + d
    /\ mcpcall' = McpOp("tick", "", TRUE, 0, 0, "")
    /\ UNCHANGED <<MCP_SESSION_POOL, _pool, sessions>>
    /\ UNCHANGED <<regVars, loopVars, parseVars, probes, reglog, lister>>

McpNext ==
    \/ McpRegister \/ McpGetSession \/ McpClose \/ McpCloseAll
    \/ McpHealthCheck \/ McpCall \/ McpTick

SpecMcp == RegInit /\ [][McpNext]_vars

(* ------------------------------ C1 ------------------------------------- *)
\* C1: an invocation of conversation_with_tool whose last response held
\* "<attempt_completion>" in its raw text, in either convention and with or
\* without tool calls in that response, ends the process in that turn: it never
\* goes on to issue a further model request.
C1_HardStop ==
    [][(stack # <<>> /\ Top.pc = "send" /\ Top.marker) => reqs' = reqs]_vars

(* ------------------------------ C2 ------------------------------------- *)
\* C2: a response that yields n >= 1 calls has them dispatched in order, no
\* exception ends the turn, and when the loop sends its next request the
\* history holds exactly the n result messages, in call order, after the
\* point where dispatch began.
C2_ResultsThenContinue ==
    /\ raised = NoRaise
    /\ \A j \in DOMAIN stack :
        (stack[j].pc = "send" /\ stack[j].tool) =>
            /\ Len(history[stack[j].agent]) = stack[j].h0 + Len(stack[j].calls)
            /\ \A k \in DOMAIN stack[j].calls :
                  history[stack[j].agent][stack[j].h0 + k].name = stack[j].calls[k].name

(* ------------------------------ C3 ------------------------------------- *)
\* C3: what conversation_with_tool returns to its caller, for a response with
\* no tool call and no marker, is the text of that response, for tool=False
\* and for tool=True alike.
C3_ReturnsText == ret.done => ret.val = Val("text", ret.text)

(* ------------------------------ C4 ------------------------------------- *)
\* C4: in the XML convention an unresolved tag name lets no exception escape
\* and leaves a system-role message naming it in the agent's history.
C4_NotFoundXml ==
    (lastDispatch.agent # 0 /\ ~lastDispatch.fc /\ lastDispatch.src = "none") =>
        /\ raised.site # "xml_not_found"
        /\ \E j \in DOMAIN history[lastDispatch.agent] :
              /\ history[lastDispatch.agent][j].role = "system"
              /\ history[lastDispatch.agent][j].name = lastDispatch.name

(* ------------------------------ C5 ------------------------------------- *)
\* C5: in the native convention an unresolved tool name is not fatal: no
\* exception leaves conversation_with_tool when the results of such a turn
\* are appended.
C5_NotFoundNative == raised.site # "native_append"

(* ------------------------------ C6 ------------------------------------- *)
\* C6: an exception raised by a dispatched callable, in either convention,
\* never leaves conversation_with_tool.
C6_CallableRaises == raised.site \notin {"native_call", "xml_call"}

(* ------------------------------ C7 ------------------------------------- *)
\* C7: a block whose parse yields no root element lets no exception leave
\* the loop.
C7_MalformedBlock == raised.site # "xml_parse"

(* ------------------------------ C8 ------------------------------------- *)
\* The name an agent key stands for: the name mapped from a uuid, else the key.
CanonicalName(k) == IF k \in DOMAIN uuid_to_name THEN uuid_to_name[k] ELSE k

C8_Permitted(a, t) ==
    \E i \in DOMAIN tools :
        /\ tools[i].name = t
        /\ \/ tools[i].allowed_agents.none
           \/ CanonicalName(inst[a].uuid) \in
                {tools[i].allowed_agents.list[j] : j \in DOMAIN tools[i].allowed_agents.list}
C8_Method(t) == t \in {"ask_for_help", "list_agents", "attempt_completion", "pack"}

\* C8: every call the dispatcher resolves, in both conventions, targets the
\* registry callable when the tool is registered and permitted for the agent,
\* else the agent's callable attribute of that name, else nothing; the target
\* is then called (unless native arguments do not parse), and a registry
\* callable is never the target for an agent its allow-list excludes.
C8_Resolution ==
    lastDispatch.agent # 0 =>
        LET a == lastDispatch.agent
            t == lastDispatch.name
        IN  /\ C8_Permitted(a, t) =>
                  /\ lastDispatch.src = "registry"
                  /\ lastDispatch.func = tools[ToolIndex(t)].function
            /\ (~C8_Permitted(a, t) /\ C8_Method(t)) =>
                  /\ lastDispatch.src = "method"
                  /\ lastDispatch.func = MethodOf(t)
            /\ (~C8_Permitted(a, t) /\ ~C8_Method(t)) =>
                  /\ lastDispatch.src = "none"
                  /\ ~lastDispatch.invoked
            /\ (lastDispatch.src # "none" /\ lastDispatch.ok) => lastDispatch.invoked
            /\ lastDispatch.invoked => lastDispatch.src # "none"

\* A registry tool whose allow-list excludes the agent is passed over and the
\* agent's own method of that name is called.
C8_Witness ==
    /\ lastDispatch.agent # 0
    /\ lastDispatch.name \in ToolNames
    /\ ~C8_Permitted(lastDispatch.agent, lastDispatch.name)
    /\ lastDispatch.src = "method"
    /\ lastDispatch.invoked

(* ------------------------------ C11 ------------------------------------ *)
\* The fragments read so far that carry index k, in arrival order
RECURSIVE C11_Of(_, _)
C11_Of(ds, k) ==
    IF ds = <<>> THEN <<>>
    ELSE IF ds[Len(ds)].index = k
    THEN Append(C11_Of(SubSeq(ds, 1, Len(ds) - 1), k), ds[Len(ds)])
    ELSE C11_Of(SubSeq(ds, 1, Len(ds) - 1), k)
RECURSIVE C11_Concat(_)
C11_Concat(fs) ==
    IF fs = <<>> THEN ""
    ELSE C11_Concat(SubSeq(fs, 1, Len(fs) - 1))
         \o (IF fs[Len(fs)].arguments = PyNone THEN "" ELSE fs[Len(fs)].arguments.s)
C11_Indices == {deltas[j].index : j \in DOMAIN deltas}

\* C11: whatever the arrival order of the indices, the accumulator holds one
\* entry per distinct index, with the id and name of the first fragment of
\* that index and the concatenation, in arrival order, of the argument
\* strings of all fragments of that index.
C11_Accumulator ==
    /\ Len(tool_calls_list) = Cardinality(C11_Indices)
    /\ \A k \in C11_Indices :
        \E e \in DOMAIN tool_calls_list :
            /\ tool_calls_list[e].id = C11_Of(deltas, k)[1].id
            /\ tool_calls_list[e].name = C11_Of(deltas, k)[1].name
            /\ tool_calls_list[e].arguments = C11_Concat(C11_Of(deltas, k))

(* ------------------------------ C12 ------------------------------------ *)
\* Reading the text as XML proper: every closing tag closes the innermost
\* open element and bears its name, and nothing stays open.
RECURSIVE C12_Nests(_, _, _)
C12_Nests(ts, i, open) ==
    IF i > Len(ts) THEN open = <<>>
    ELSE IF ts[i].k = "open" THEN C12_Nests(ts, i + 1, Append(open, ts[i].n))
    ELSE IF ts[i].k = "close"
    THEN /\ open # <<>>
         /\ open[Len(open)] = ts[i].n
         /\ C12_Nests(ts, i + 1, SubSeq(open, 1, Len(open) - 1))
    ELSE C12_Nests(ts, i + 1, open)
C12_NoWrapper(ts) == \A j \in DOMAIN ts : ~IsWrapperTag(ts[j])
C12_WellFormed(ts) == C12_NoWrapper(ts) /\ C12_Nests(ts, 1, <<>>)

\* The closing tag that ends the element opened before position q
RECURSIVE C12_End(_, _, _)
C12_End(ts, q, depth) ==
    IF ts[q].k = "open" THEN C12_End(ts, q + 1, depth + 1)
    ELSE IF ts[q].k = "close"
    THEN IF depth = 1 THEN q ELSE C12_End(ts, q + 1, depth - 1)
    ELSE C12_End(ts, q + 1, depth)
\* The elements that are siblings at the level of position p, in order
RECURSIVE C12_Elements(_, _)
C12_Elements(ts, p) ==
    IF p > Len(ts) THEN <<>>
    ELSE IF ts[p].k = "open"
    THEN <<[n |-> ts[p].n, inner |-> SubSeq(ts, p + 1, C12_End(ts, p + 1, 1) - 1)]>>
         \o C12_Elements(ts, C12_End(ts, p + 1, 1) + 1)
    ELSE C12_Elements(ts, p + 1)
RECURSIVE C12_Text(_)
C12_Text(ts) ==
    IF ts = <<>> THEN ""
    ELSE C12_Text(SubSeq(ts, 1, Len(ts) - 1))
         \o (IF ts[Len(ts)].k = "text" THEN ts[Len(ts)].n ELSE "")
\* A sequence of (name, text) pairs as a mapping, a later pair winning
C12_Map(kvs) ==
    [m \in {kvs[j].k : j \in DOMAIN kvs} |->
        kvs[CHOOSE j \in DOMAIN kvs :
                kvs[j].k = m /\ \A l \in DOMAIN kvs : kvs[l].k = m => l <= j].v]
C12_Params(e) ==
    LET cs == C12_Elements(e.inner, 1)
    IN  C12_Map([j \in DOMAIN cs |-> KV(cs[j].n, C12_Text(cs[j].inner))])

\* C12: for a text made of well-formed top-level blocks the extractor yields
\* one call per top-level block, in text order, named by the block's tag and
\* with the mapping child tag name -> child text as parameters; no nested tag
\* becomes a call of its own.
C12_OneCallPerBlock ==
    (extracted /\ C12_WellFormed(full_content)) =>
        LET top == C12_Elements(full_content, 1)
        IN  /\ Len(xml_calls) = Len(top)
            /\ \A j \in DOMAIN top :
                  /\ xml_calls[j].name = top[j].n
                  /\ C12_Map(xml_calls[j].params) = C12_Params(top[j])

(* ------------------------------ C13 ------------------------------------ *)
\* Some closing tag of the text meets an innermost open element of another name.
RECURSIVE C13_Mismatched(_, _, _)
C13_Mismatched(ts, i, open) ==
    IF i > Len(ts) THEN FALSE
    ELSE IF ts[i].k = "open" THEN C13_Mismatched(ts, i + 1, Append(open, ts[i].n))
    ELSE IF ts[i].k = "close"
    THEN IF open = <<>> THEN C13_Mismatched(ts, i + 1, open)
         ELSE IF open[Len(open)] # ts[i].n THEN TRUE
         ELSE C13_Mismatched(ts, i + 1, SubSeq(open, 1, Len(open) - 1))
    ELSE C13_Mismatched(ts, i + 1, open)

\* C13: a text in which an opening tag is closed by a tag of another name
\* yields no call at all.
C13_MismatchYieldsNothing ==
    (extracted /\ C12_NoWrapper(full_content) /\ C13_Mismatched(full_content, 1, <<>>)) =>
        xml_calls = <<>>

(* ------------------------------ C14 ------------------------------------ *)
\* The whole text stands inside one pair of wrapper tags.
C14_Enclosed(ts) ==
    /\ Len(ts) >= 2
    /\ ts[1].k = "open" /\ IsWrapperTag(ts[1])
    /\ ts[Len(ts)] = Close(ts[1].n)
    /\ \A j \in 2..(Len(ts) - 1) : ~IsWrapperTag(ts[j])

\* C14: nothing that stands inside <thinking>...</thinking> or
\* <out_text>...</out_text> becomes a call, and no call bears a wrapper's name.
C14_WrappedIsNoCall ==
    extracted =>
        /\ \A j \in DOMAIN xml_calls : xml_calls[j].name \notin {"out_text", "thinking"}
        /\ C14_Enclosed(full_content) => xml_calls = <<>>

(* ------------------------------ C15 ------------------------------------ *)
\* The XML dispatcher has resolved a call to a registered host function.
C15_XmlCallOf(funcs) ==
    /\ lastDispatch.agent # 0
    /\ ~lastDispatch.fc
    /\ lastDispatch.src = "registry"
    /\ lastDispatch.func \in funcs
C15_ChildNames == {lastDispatch.params[j].k : j \in DOMAIN lastDispatch.params}

C16_GetTimeBlock == Call("", "get_time", <<>>, TRUE)
C16_GetTimeResult == Msg("system", "get_time", "", Val("str", "11:03"), <<>>)
\* time_agent has dispatched the lone block <get_time></get_time> of a
\* response without the completion marker.
C16_GetTimeDone ==
    /\ stack # <<>>
    /\ Top.agent = 2 /\ ~Top.native /\ ~Top.marker
    /\ Top.calls = <<C16_GetTimeBlock>>
    /\ Top.pc = "dispatch" /\ Top.i = 2
\* A callable with **kwargs or without required parameter is called once:
\* without argument for a block without child tags, else with the parsed
\* mapping as named arguments.
C16_Spread ==
    C15_XmlCallOf({"get_time", "sync_wrapper:mcp_tool"}) =>
        /\ Len(entered) = 1
        /\ entered[1].func = lastDispatch.func
        /\ IF lastDispatch.params = <<>>
           THEN entered[1].mode = "none" /\ entered[1].args = <<>>
           ELSE /\ entered[1].mode = "kw"
                /\ C12_Map(entered[1].args) = C12_Map(lastDispatch.params)
\* What get_time returned is the one result of the dispatch.
C16_Returned ==
    C16_GetTimeDone =>
        /\ entered = <<[func |-> "get_time", mode |-> "none", args |-> <<>>, bound |-> TRUE]>>
        /\ Top.results = <<Result(FALSE, "", "get_time", Val("str", "11:03"))>>
\* The result is appended to time_agent's history and the loop turns to its
\* next request.
C16_Continues ==
    C16_GetTimeDone =>
        /\ history'[2] = Append(history[2], C16_GetTimeResult)
        /\ stack' = SetTop(stack, [Top EXCEPT !.pc = "send", !.tool = TRUE])
        /\ proc' = "up"

C17_NamedThenBlock ==
    (/\ C15_XmlCallOf({"one_req", "opt_req", "two_req"})
     /\ lastDispatch.func = "two_req" \/ Cardinality(C15_ChildNames) # 1) =>
        /\ Len(entered) \in {1, 2}
        /\ entered[1].mode = "kw"
        /\ C12_Map(entered[1].args) = C12_Map(lastDispatch.params)
        /\ (Len(entered) = 2) <=> ~entered[1].bound
        /\ Len(entered) = 2 =>
              /\ entered[2].mode = "pos"
              /\ entered[2].args = <<KV("", "<" \o lastDispatch.name \o ">")>>

(* ------------------------------ C18 ------------------------------------ *)
\* C18: for one call the target callable is entered at most once, also when
\* its body raises a TypeError on the named-argument path.
C18_EnteredOnce == Cardinality({j \in DOMAIN entered : entered[j].bound}) <= 1

(* ------------------------------ C19 ------------------------------------ *)
\* A peer's loop, entered through ask_for_help, is about to return: its last
\* response held neither a call nor the completion marker.
C19_PeerReturns ==
    /\ Len(stack) >= 2
    /\ stack[Len(stack) - 1].pc = "await"
    /\ stack[Len(stack) - 1].calls[stack[Len(stack) - 1].i].name = "ask_for_help"
    /\ Top.pc = "dispatch" /\ ~Top.native /\ ~Top.marker
    /\ Top.i > Len(Top.calls) /\ Top.results = <<>>

\* C19: the result of ask_for_help to a known peer is the text of the peer's
\* last model response, whether or not the peer used tools before answering.
C19_PeerAnswer ==
    [][C19_PeerReturns =>
          LET caller == stack'[Len(stack')]
          IN  caller.results[Len(caller.results)].content = Val("text", Top.text)]_vars

(* ------------------------------ C20 ------------------------------------ *)
\* The dispatcher is at a call of ask_for_help whose agent_id the directory
\* holds under no key.
C20_UnknownPeer ==
    /\ proc = "up" /\ stack # <<>>
    /\ Top.pc = "dispatch" /\ Top.i <= Len(Top.calls)
    /\ Top.calls[Top.i].name = "ask_for_help"
    /\ \E j \in DOMAIN Top.calls[Top.i].params :
          /\ Top.calls[Top.i].params[j].k = "agent_id"
          /\ Top.calls[Top.i].params[j].v \notin DOMAIN agent_list
    /\ \E j \in DOMAIN Top.calls[Top.i].params : Top.calls[Top.i].params[j].k = "message"

\* C20: delegating to an id the directory holds under neither a uuid nor a
\* name raises nothing and enters no peer loop: no history changes, the call's
\* result is a system-content error value, and the caller goes on to its
\* next call.
C20_NoSuchPeer ==
    [][C20_UnknownPeer =>
          /\ proc' = "up"
          /\ raised' = raised
          /\ history' = history
          /\ Len(stack') = Len(stack)
          /\ stack'[Len(stack')].pc = "dispatch"
          /\ stack'[Len(stack')].i = Top.i + 1
          /\ Len(stack'[Len(stack')].results) = Len(Top.results) + 1
          /\ stack'[Len(stack')].results[Len(Top.results) + 1].content
                = Val("dict", "system: unknown uuid/alias ghost")]_vars

\* The caller's next request goes out with the error value as last message.
C20_Witness ==
    /\ reqs >= 2
    /\ reqlog[2].agent = reqlog[1].agent
    /\ history[reqlog[2].agent][reqlog[2].len].content
          = Val("dict", "system: unknown uuid/alias ghost")

(* ------------------------------ C21 ------------------------------------ *)
\* C21: while an invocation of an agent's loop is between the start of
\* dispatching a turn's calls and the appending of that turn's results (it is
\* dispatching, or waiting inside ask_for_help), no message is appended to that
\* agent's history: the loop of the agent is not entered again meanwhile, for any
\* delegation chain, self-delegation included.
C21_OwnLoopOnly ==
    [][\A j \in DOMAIN stack :
          (/\ stack[j].pc \in {"dispatch", "await"}
           /\ j \in DOMAIN stack'
           /\ stack'[j].pc \in {"dispatch", "await"})
          => history'[stack[j].agent] = history[stack[j].agent]]_vars

C23_FailedProbeIsFatal ==
    [][(/\ Len(probes') > Len(probes)
        /\ probes'[Len(probes')].ctor
        /\ ~probes'[Len(probes')].ok)
       => /\ Len(probes') = Len(probes) + 1
          /\ raised'.exc = "ConnectionError"
          /\ inst' = inst
          /\ history' = history
          /\ agent_list' = agent_list]_vars

\* A construction has failed next to one that succeeded, and the directory
\* holds the other agent only.
C23_Witness ==
    /\ probes # <<>>
    /\ probes[Len(probes)].ctor /\ ~probes[Len(probes)].ok
    /\ raised.exc = "ConnectionError"
    /\ Len(inst) = 1
    /\ agent_list # <<>>
    /\ probes[Len(probes)].uuid \notin DOMAIN agent_list
    /\ probes[Len(probes)].name \notin DOMAIN agent_list

(* ------------------------------ C24 ------------------------------------ *)
\* What get_tool_info(n) returns in a registry ts
C24_Info(ts, n) ==
    IF \E i \in DOMAIN ts : ts[i].name = n
    THEN ts[CHOOSE i \in DOMAIN ts : ts[i].name = n]
    ELSE NoInfo

\* C24: the entry of a registered name (callable, allow-list, description,
\* parameters and schema) stays what it is under every later registration;
\* the one step that changes it is a registration under that same name.
C24_EntryStable ==
    [][\A n \in ToolNames :
          C24_Info(tools', n) # C24_Info(tools, n) => reglog' = Append(reglog, n)]_vars

\* t1 was registered first; t2 was registered and then registered again; the
\* registry holds the two entries.
C24_Witness ==
    /\ reglog = <<"t1", "t2", "t2">>
    /\ Len(tools) = 2
    /\ tools[1].name = "t1" /\ tools[2].name = "t2"

(* ------------------------------ C25 ------------------------------------ *)
\* The position of the first registration of a name
C25_FirstReg(n) ==
    CHOOSE i \in DOMAIN reglog : reglog[i] = n /\ \A l \in 1..(i - 1) : reglog[l] # n

\* The registered tools check_permission admits for a key
C25_Allowed(key) == {n \in ToolNames : check_permission(key, n)}

\* A listing names exactly the allowed tools, each once, in the order in
\* which the names were first registered.
C25_Names(key, names) ==
    /\ {names[j] : j \in DOMAIN names} = C25_Allowed(key)
    /\ Len(names) = Cardinality(C25_Allowed(key))
    /\ \A j, k \in DOMAIN names : j < k => C25_FirstReg(names[j]) < C25_FirstReg(names[k])

\* C25: for every agent key and registry state, get_all_tools_schema and
\* get_all_tools_info return the registered tools for which check_permission
\* holds for the key, each once, in registration order: the schema list holds
\* the stored schema of each, the info dict its description and parameters.
C25_ListsPermitted ==
    lister.status = "done" =>
        /\ C25_Names(lister.key, [j \in DOMAIN lister.out |-> lister.out[j].name])
        /\ C25_Names(lister.key, [j \in DOMAIN lister.info |-> lister.info[j].name])
        /\ \A j \in DOMAIN lister.out :
              lister.out[j] = tools[ToolIndex(lister.out[j].name)].schema
        /\ \A j \in DOMAIN lister.info :
              /\ lister.info[j].description
                    = tools[ToolIndex(lister.info[j].name)].description
              /\ lister.info[j].parameters
                    = tools[ToolIndex(lister.info[j].name)].parameters

\* The uuid k1 lists a registry of two tools, the first of them re-registered
\* after the second, and sees only the one its name k2 is allowed.
C25_Witness ==
    /\ lister.status = "done" /\ lister.key = "k1"
    /\ reglog = <<"t2", "t1", "t2">>
    /\ Len(lister.out) = 1 /\ Len(lister.info) = 1
    /\ ~check_permission("k1", "t2")

(* ------------------------------ C26 ------------------------------------ *)
\* C26: a listing of the permitted tools that overlaps registrations made by
\* another thread does not fail, and every entry it returns is the whole
\* schema of a tool as some registration stored it.
C26_ListingSurvives ==
    /\ lister.status # "error"
    /\ \A j \in DOMAIN lister.out :
          \E d \in {"d"}, p \in ListParameters :
              lister.out[j] = tool_schema(lister.out[j].name, d, p)

(* ------------------------------ C27 ------------------------------------ *)
\* The schemas of the first n registry tools that agent a is permitted
RECURSIVE C27_Registry(_, _)
C27_Registry(a, n) ==
    IF n = 0 THEN <<>>
    ELSE IF C8_Permitted(a, tools[n].name)
    THEN Append(C27_Registry(a, n - 1), tools[n].schema)
    ELSE C27_Registry(a, n - 1)

\* C27: a request of an agent with function calling carries, as its tool
\* list, the schemas of the registry tools permitted for the agent when the
\* request is sent, in registration order, then the schemas of ask_for_help,
\* list_agents and attempt_completion; a request of an agent without function
\* calling carries no tool list.
C27_ToolsSent ==
    [][reqs' = reqs + 1 =>
          LET e == reqlog'[Len(reqlog')]
              a == e.agent
          IN  IF inst[a].fc
              THEN /\ e.has_tools
                   /\ e.tools = C27_Registry(a, Len(tools)) \o builtin_tools_schema
                   /\ \A j \in 1..(Len(e.tools) - Len(builtin_tools_schema)) : C8_Permitted(a, e.tools[j].name)
              ELSE /\ ~e.has_tools
                   /\ e.tools = <<>>]_vars

\* scheduling_agent has sent two requests with function calling; a tool
\* registered in between is in the second list only, and get_time, which its
\* allow-list keeps from this agent, is in neither.
C27_Witness ==
    /\ reqs = 2
    /\ reqlog[1].agent = 1 /\ reqlog[2].agent = 1
    /\ reqlog[1].has_tools /\ reqlog[2].has_tools
    /\ Len(reqlog[2].tools) = Len(reqlog[1].tools) + 1
    /\ \E j \in DOMAIN reqlog[2].tools : reqlog[2].tools[j].name = "t1"
    /\ \A j \in DOMAIN reqlog[2].tools : reqlog[2].tools[j].name # "get_time"
    /\ "get_time" \in ToolNames

(* ------------------------------ C28 ------------------------------------ *)
\* C28: when the n >= 1 native calls of a response have all been dispatched,
\* whether they succeeded, failed or were unresolvable, the next step leaves
\* the agent's history ending with the assistant message that carries the n
\* calls and, after it, exactly n tool-role messages, the i-th with the id and
\* the name of the i-th call; no exception is raised, and the follow-up
\* request is still to be sent.
C28_NativeTurnAppended ==
    [][(/\ proc = "up" /\ stack # <<>>
        /\ Top.native /\ Top.pc = "dispatch" /\ Top.i > Len(Top.calls))
       => LET a == Top.agent
              n == Len(Top.calls)
              h == history'[a]
          IN  /\ Len(h) = Top.h0 + n
              /\ h[Top.h0].role = "assistant"
              /\ h[Top.h0].calls = Top.calls
              /\ \A k \in 1..n :
                    /\ h[Top.h0 + k].role = "tool"
                    /\ h[Top.h0 + k].id = Top.calls[k].id
                    /\ h[Top.h0 + k].name = Top.calls[k].name
              /\ raised' = raised
              /\ stack' # <<>>
              /\ stack'[Len(stack')].pc = "send"
              /\ reqs' = reqs]_vars

(* ------------------------------ C29 ------------------------------------ *)
\* The XML turn of the top frame is about to dispatch a block whose name the
\* lookup does not resolve, after at least one block of the turn returned.
C29_LookupFails ==
    /\ proc = "up" /\ stack # <<>>
    /\ ~Top.native /\ Top.pc = "dispatch" /\ Top.i <= Len(Top.calls)
    /\ Top.calls[Top.i].ok
    /\ Resolve(Top.agent, Top.calls[Top.i].name).src = "none"
    /\ Top.results # <<>>

\* The XML turn of the top frame has dispatched its last block and holds
\* results.
C29_TurnOver ==
    /\ proc = "up" /\ stack # <<>>
    /\ ~Top.native /\ Top.pc = "dispatch" /\ Top.i > Len(Top.calls)
    /\ ~Top.marker /\ Top.results # <<>>

\* C29: in the XML convention the results of a turn are appended one message
\* per result, each labelled with the name of the tool that returned it, and a
\* block that fails tool lookup does not take the results of the blocks
\* dispatched before it away: the turn goes on with them.
C29_XmlResultsLabelled ==
    [][/\ C29_TurnOver =>
            LET a == Top.agent
                n == Len(Top.results)
            IN  /\ Len(history'[a]) = Len(history[a]) + n
                /\ \A j \in 1..n :
                      /\ history'[a][Len(history[a]) + j].name = Top.results[j].name
                      /\ history'[a][Len(history[a]) + j].content = Top.results[j].content
       /\ C29_LookupFails =>
            /\ raised' = raised
            /\ Len(stack') = Len(stack)
            /\ stack'[Len(stack')].pc = "dispatch"
            /\ SubSeq(stack'[Len(stack')].results, 1, Len(Top.results)) = Top.results]_vars

(* ------------------------------ C30 ------------------------------------ *)
\* The position of the first <attempt_completion> block among the blocks of a
\* turn, or 0
C30_First(calls) ==
    IF \E k \in DOMAIN calls : calls[k].name = "attempt_completion"
    THEN CHOOSE k \in DOMAIN calls :
            /\ calls[k].name = "attempt_completion"
            /\ \A j \in 1..(k - 1) : calls[j].name # "attempt_completion"
    ELSE 0

\* The process exits in this step, out of an XML turn whose text holds a
\* complete <attempt_completion> block.
C30_ExitStep ==
    /\ proc = "up" /\ proc' = "exit"
    /\ stack # <<>> /\ ~Top.native
    /\ C30_First(Top.calls) # 0

\* C30: when the process exits out of an XML turn that holds an
\* <attempt_completion> block, it does so in dispatching that block: the
\* blocks before it have been dispatched and have returned, in order; their
\* results are held by the turn and are not in the history; no block after
\* it is dispatched, for no step follows the exit.
C30_ExitAtBlock ==
    [][/\ proc # "exit"
       /\ C30_ExitStep =>
            LET k == C30_First(Top.calls)
            IN  /\ Top.pc = "dispatch"
                /\ Top.i = k
                /\ Len(Top.results) = k - 1
                /\ \A j \in 1..(k - 1) : Top.results[j].name = Top.calls[j].name
                /\ history' = history
                /\ (\A j \in 1..(k - 1) : Top.calls[j].name # "ask_for_help")
                      => Len(history[Top.agent]) = Top.h0]_vars

\* time_agent's text held a delegation block and then <attempt_completion>:
\* the peer was asked and answered, the process then exited, and time_agent's
\* history ends with the user message of the turn.
C30_Witness ==
    /\ proc = "exit"
    /\ lastDispatch.name = "attempt_completion" /\ lastDispatch.invoked
    /\ lastDispatch.agent = 2 /\ ~lastDispatch.fc
    /\ reqs = 2 /\ reqlog[1].agent = 2 /\ reqlog[2].agent = 1
    /\ history[2] = <<SystemMsg, UserMsg>>
    /\ Len(history[1]) >= 2

(* ------------------------------ C31 ------------------------------------ *)
\* C31: a call the dispatcher resolves outside the registry names one of the
\* built-ins ask_for_help, list_agents and attempt_completion; a name that is
\* another attribute of the agent, and no permitted registry tool, resolves
\* to nothing and nothing is invoked for it.
C31_BuiltinsOnly ==
    (lastDispatch.agent # 0 /\ ~C8_Permitted(lastDispatch.agent, lastDispatch.name)) =>
        IF lastDispatch.name \in {"ask_for_help", "list_agents", "attempt_completion"}
        THEN lastDispatch.src = "method"
        ELSE lastDispatch.src = "none" /\ ~lastDispatch.invoked

(* ------------------------------ C32 ------------------------------------ *)
\* The top frame has dispatched every call of its response, holds results and
\* neither stops at the marker nor fails while appending them
C32_RoundOver ==
    /\ Top.i > Len(Top.calls) /\ Top.results # <<>>
    /\ IF Top.native THEN FirstErrOnly(Top.results) = 0 ELSE ~Top.marker

\* c is a complete ask_for_help call to a key of the directory
C32_Delegation(c) ==
    /\ c.name = "ask_for_help" /\ c.ok
    /\ HasKey(c.params, "agent_id") /\ HasKey(c.params, "message")
    /\ Get(c.params, "agent_id") \in DOMAIN agent_list

\* the frame of the user's own call has received a response with no tool call
C32_NoCallResponse ==
    proc = "up" /\ Len(stack) = 1 /\ Top.pc = "dispatch" /\ Top.calls = <<>>

\* C32: a frame whose response holds no tool call ends with the next step (it
\* returns to its caller or the process exits); a frame whose calls gave
\* results goes on to another request whatever the number of rounds so far;
\* an ask_for_help to a directory key enters the peer's loop whatever the call
\* chain holds, the peer's own waiting frame included; and once the model
\* answers the user's turn with no tool call, the turn is over.
C32_EndsOnlyWithoutCall ==
    /\ [][ (proc = "up" /\ stack # <<>> /\ Top.pc = "dispatch") =>
            /\ Top.calls = <<>> => (proc' = "exit" \/ Len(stack') = Len(stack) - 1)
            /\ C32_RoundOver =>
                 stack' = SetTop(stack, [Top EXCEPT !.pc = "send", !.tool = TRUE])
            /\ (Top.i <= Len(Top.calls) /\ C32_Delegation(Top.calls[Top.i])) =>
                 stack' = Append(SetTop(stack, [Top EXCEPT !.pc = "await"]),
                                 Frame(agent_list[Get(Top.calls[Top.i].params, "agent_id")],
                                       FALSE)) ]_vars
    /\ (C32_NoCallResponse ~> (stack = <<>>))

\* A delegation cycle: scheduling_agent waits for time_agent, which waits for
\* scheduling_agent, whose second loop is running.
C32_Witness ==
    /\ Len(stack) = 3
    /\ stack[1].agent = stack[3].agent /\ stack[2].agent # stack[1].agent
    /\ stack[1].pc = "await" /\ stack[2].pc = "await"
    /\ stack[3].pc = "dispatch" /\ stack[3].calls # <<>>

(* ------------------------------ C33 ------------------------------------ *)
\* The tool-role message the claim expects for call c of a native response
C33_ErrorMsg(c) == Msg("tool", c.name, c.id, ErrText(c.name, "JSONDecodeError"), <<>>)

\* C33: a native call whose argument string is no valid JSON is not invoked,
\* gets an error text as its result and lets the dispatch go on to the next
\* call; when the calls of the response are done, the history gains a
\* tool-role message with the call's id and that error text, and the loop
\* continues.
C33_BadArgumentsAreAResult ==
    [][ (proc = "up" /\ stack # <<>> /\ Top.pc = "dispatch" /\ Top.native) =>
          /\ (Top.i <= Len(Top.calls) /\ ~Top.calls[Top.i].ok) =>
                /\ entered' = <<>> /\ ~lastDispatch'.invoked
                /\ stack' = SetTop(stack,
                      Resume(Top, ErrText(Top.calls[Top.i].name, "JSONDecodeError")))
          /\ (Top.i > Len(Top.calls) /\ \E j \in DOMAIN Top.calls : ~Top.calls[j].ok) =>
                /\ \A j \in DOMAIN Top.calls : ~Top.calls[j].ok =>
                      \E k \in (Len(history[Top.agent]) + 1)..Len(history'[Top.agent]) :
                          history'[Top.agent][k] = C33_ErrorMsg(Top.calls[j])
                /\ stack' = SetTop(stack, [Top EXCEPT !.pc = "send", !.tool = TRUE]) ]_vars

(* ------------------------------ C34 ------------------------------------ *)
\* C34: when a frame has dispatched every call of a response and its next
\* step neither exits nor raises (the frame goes on to its next request or
\* returns), the agent's history holds an assistant-role message recorded for
\* that response, at or after the position the history had when the response
\* was read.
C34_ResponseRecorded ==
    [][ (/\ proc = "up" /\ stack # <<>>
         /\ Top.pc = "dispatch" /\ Top.i > Len(Top.calls)
         /\ proc' = "up" /\ raised' = raised)
        => \E k \in 1..Len(history'[Top.agent]) :
              /\ k >= Top.h0
              /\ history'[Top.agent][k].role = "assistant" ]_vars

(* ------------------------------ C35 ------------------------------------ *)
\* C35: a construction that succeeds leaves the new agent's history holding
\* exactly one message, the system message with the prompt the constructor
\* composed (base prompt, tool listing, uuid); the probe message is gone.
C35_ComposedPromptKept ==
    [][ Len(inst') = Len(inst) + 1
        => history'[Len(inst')] = <<ComposedMsg>> ]_vars

(* ------------------------------ C36 ------------------------------------ *)
\* The session register_mcp_tools opened for server_path p, which the tools of
\* p use
C36_Session(p) == MCP_SESSION_POOL[p].session

\* C36: for a server whose tools register_mcp_tools has registered,
\* close_mcp_session answers True and close_all_mcp_sessions counts it, unless
\* leaving the session raised, and the session the tools use is then closed;
\* a health check closes that session once it has been idle for longer than
\* max_idle_time; and a call of a tool of a server whose session has been
\* closed fails with the session-not-initialised error and uses no session.
C36_PoolOwnsToolSession ==
    [][ mcpcall'.n = mcpcall.n + 1 =>
        \A p \in DOMAIN MCP_SESSION_POOL :
          /\ (mcpcall'.op = "close" /\ mcpcall'.path = p /\ mcpcall'.ok) =>
                ~sessions'[C36_Session(p)].open
          /\ (mcpcall'.op = "close" /\ mcpcall'.path = p) =>
                (p \in DOMAIN _pool /\ _pool[p].session = C36_Session(p))
          /\ (mcpcall'.op = "close_all" /\ sessions[C36_Session(p)].open) =>
                (p \in DOMAIN _pool /\ _pool[p].session = C36_Session(p))
          /\ (/\ mcpcall'.op = "health_check" /\ sessions[C36_Session(p)].open
              /\ now - MCP_SESSION_POOL[p].last_used > max_idle_time) =>
                (p \in DOMAIN _pool /\ _pool[p].session = C36_Session(p))
          /\ (/\ mcpcall'.op = "call" /\ mcpcall'.path = p
              /\ ~sessions[C36_Session(p)].open) =>
                (mcpcall'.used = 0
                 /\ mcpcall'.error = "RuntimeError: session not initialized") ]_vars

(* ------------------------------ C9 ------------------------------------- *)
\* The canonical name of an agent key: the name mapped from it when it is a
\* registered uuid, else the key itself.

C9_Expected(k, t) ==
    \E i \in DOMAIN tools :
        /\ tools[i].name = t
        /\ \/ tools[i].allowed_agents.none
           \/ CanonicalName(k) \in {tools[i].allowed_agents.list[j] :
                                        j \in DOMAIN tools[i].allowed_agents.list}

\* C9: every answer of check_permission(k, tool) is true iff the tool is
\* registered and either has no allow-list or holds the canonical name of k
\* in its allow-list; for a tool name that is not registered it is false.
C9_CheckPermission ==
    lastCheck.asked => (lastCheck.result = C9_Expected(lastCheck.key, lastCheck.tool))

\* A query by uuid that is permitted only through the uuid -> name resolution.
C9_Witness ==
    /\ lastCheck.asked
    /\ lastCheck.result
    /\ lastCheck.key \in DOMAIN uuid_to_name
    /\ lastCheck.tool \in ToolNames
    /\ ~tools[ToolIndex(lastCheck.tool)].allowed_agents.none
    /\ ~InList(lastCheck.key, tools[ToolIndex(lastCheck.tool)].allowed_agents.list)

(* ------------------------------ C10 ------------------------------------ *)
\* C10: after any sequence of register_agent calls, for every agent in the
\* directory the entries under its uuid and under its name are that same
\* instance.
C10_DualKey ==
    \A k \in DOMAIN agent_list :
        LET i == agent_list[k]
        IN  agent_list[inst[i].uuid] = i /\ agent_list[inst[i].name] = i

====
